---- MODULE Spec2Model ----
(***************************************************************************)
(* ReactBoundary: the analyzer of src/src/lib.rs with its helpers          *)
(* component.rs (component classifier), jsx.rs (markup usage collector)    *)
(* and range.rs (byte offset to line/character mapper).                    *)
(*                                                                         *)
(* Four specifications share the variables:                                *)
(*   Spec          the analyze entry point of lib.rs, statement by         *)
(*                 statement through its passes;                           *)
(*   SpecRange     the functions of range.rs applied to bounded inputs;    *)
(*   SpecComponent the classifier of component.rs applied to bounded       *)
(*                 declarations;                                           *)
(*   SpecJsx       the collector of jsx.rs applied to bounded statements.  *)
(***************************************************************************)
EXTENDS Integers, Sequences, FiniteSets, TLC

VARIABLES
    \* Spec: analyze(content, extension) of lib.rs
    content,    \* the bytes: whether they decode, the text, what the parser makes of it
    extension,
    pc,         \* how far analyze has come
    locals,     \* the local variables analyze has bound so far, by name
    result,     \* the value analyze returns
    \* SpecRange, SpecComponent, SpecJsx
    call,       \* the function applied and its arguments
    returned    \* its return value, NotReturned before the call

analyze_vars == <<content, extension, pc, locals, result>>
unit_vars == <<call, returned>>
vars == <<analyze_vars, unit_vars>>

NoCall == [fn |-> "none"]
Unset == [kind |-> "Unset"]
NotReturned == [kind |-> "NotReturned"]
Panic == [kind |-> "Panic"]

(***************************************************************************)
(* Bounds                                                                  *)
(***************************************************************************)
\* longest source text of SpecRange, in characters
MaxSourceLen == 3
\* most lines of a module given to analyze
MaxLines == 3
\* bytes of source text each directive and each top-level statement takes:
\* one line, its last byte the newline
LineWidth == 12

(***************************************************************************)
(* range.rs                                                                *)
(***************************************************************************)
\* A source text is a sequence of characters; a character is named by a
\* string: "a" (one byte), "\n" (the newline, one byte), "e2" (a two-byte
\* scalar such as U+00E9) and "e4" (a four-byte scalar such as U+1F600).
Chars == {"a", "\n", "e2", "e4"}

len_utf8(ch) == CASE ch = "e2" -> 2 [] ch = "e4" -> 4 [] OTHER -> 1

RECURSIVE byte_len(_)
byte_len(source) ==
    IF source = <<>> THEN 0 ELSE len_utf8(Head(source)) + byte_len(Tail(source))

\* u32 offsets. TLC's integers stop at 2^31 - 1, so the 2^32 of u32 is
\* narrowed to 2^30, far above every byte offset of every bounded source
\* text; wrap-around is kept.
U32Modulus == 2^30
U32Max == U32Modulus - 1

wrapping_add(a, b) == (a + b) % U32Modulus
wrapping_sub(a, b) == (a - b + U32Modulus) % U32Modulus

Position(line, character) == [line |-> line, character |-> character]
Span(start, end) == [start |-> start, end |-> end]

\* for (i, ch) in source.char_indices(): k is the index of ch in the text,
\* i its byte index.
RECURSIVE offset_to_position_loop(_, _, _, _, _, _)
offset_to_position_loop(source, offset, k, i, line, character) ==
    IF k > Len(source) THEN Position(line, character)
    ELSE IF i >= offset THEN Position(line, character)
    ELSE IF source[k] = "\n"
         THEN offset_to_position_loop(source, offset, k + 1, i + len_utf8(source[k]),
                                      line + 1, 0)
         ELSE offset_to_position_loop(source, offset, k + 1, i + len_utf8(source[k]),
                                      line, character + 1)

\* a loop that counts a character's bytes into the column
RECURSIVE offset_to_position_bytes_loop(_, _, _, _, _, _)
offset_to_position_bytes_loop(source, offset, k, i, line, character) ==
    IF k > Len(source) THEN Position(line, character)
    ELSE IF i >= offset THEN Position(line, character)
    ELSE IF source[k] = "\n"
         THEN offset_to_position_bytes_loop(source, offset, k + 1,
                  i + len_utf8(source[k]), line + 1, 0)
         ELSE offset_to_position_bytes_loop(source, offset, k + 1,
                  i + len_utf8(source[k]), line, character + len_utf8(source[k]))

offset_to_position_bytes(source, offset) ==
    offset_to_position_bytes_loop(source, offset, 1, 0, 0, 0)

offset_to_position(source, offset) ==
    offset_to_position_loop(source, offset, 1, 0, 0, 0)

span_to_range(source, span) ==
    [start |-> offset_to_position(source, span.start),
     end   |-> offset_to_position(source, span.end)]

\* a string-literal range that keeps the quotes
string_literal_to_range_with_quotes(source, span) ==
    [start |-> offset_to_position(source, span.start),
     end   |-> offset_to_position(source, span.end)]

\* span.start + 1 and span.end - 1 are u32 arithmetic: an overflow panics in
\* a build with overflow checks and wraps in a build without.
string_literal_overflows(span) == span.start = U32Max \/ span.end = 0

string_literal_to_range(source, span) ==
    [start |-> offset_to_position(source, wrapping_add(span.start, 1)),
     end   |-> offset_to_position(source, wrapping_sub(span.end, 1))]

string_literal_to_range_outcomes(source, span) ==
    {string_literal_to_range(source, span)}
        \cup (IF string_literal_overflows(span) THEN {Panic} ELSE {})

\* Positions are ordered by line, then by character.
PosLess(p, q) ==
    \/ p.line < q.line
    \/ p.line = q.line /\ p.character < q.character

(***************************************************************************)
(* Names.  An identifier is a sequence of one-character strings, so that    *)
(* name.chars().next() is its first element.                                *)
(***************************************************************************)
UppercaseChars ==
    {"A", "B", "C", "D", "E", "F", "G", "H", "I", "J", "K", "L", "M",
     "N", "O", "P", "Q", "R", "S", "T", "U", "V", "W", "X", "Y", "Z"}

\* char::is_uppercase
is_uppercase(c) == c \in UppercaseChars

LowercaseChars ==
    {"a", "b", "c", "d", "e", "f", "g", "h", "i", "j", "k", "l", "m",
     "n", "o", "p", "q", "r", "s", "t", "u", "v", "w", "x", "y", "z"}
starts_lowercase(name) == Len(name) > 0 /\ name[1] \in LowercaseChars

\* name.chars().next().is_some_and(|c| c.is_uppercase())
is_pascal_case(name) == Len(name) > 0 /\ is_uppercase(name[1])

Name_export == <<"_", "_", "e", "x", "p", "o", "r", "t">>
Name_forwardRef == <<"f", "o", "r", "w", "a", "r", "d", "R", "e", "f">>
Name_memo == <<"m", "e", "m", "o">>
Name_lazy == <<"l", "a", "z", "y">>
Name_React == <<"R", "e", "a", "c", "t">>
Name_jsx == <<"j", "s", "x">>
Name_jsxs == <<"j", "s", "x", "s">>
Name_jsxDEV == <<"j", "s", "x", "D", "E", "V">>
Name_Fragment == <<"F", "r", "a", "g", "m", "e", "n", "t">>
Name_FC == <<"F", "C">>
Name_FunctionComponent ==
    <<"F", "u", "n", "c", "t", "i", "o", "n", "C", "o", "m", "p", "o", "n", "e", "n", "t">>
Name_VFC == <<"V", "F", "C">>
Name_ReactElement == <<"R", "e", "a", "c", "t", "E", "l", "e", "m", "e", "n", "t">>
Name_ReactNode == <<"R", "e", "a", "c", "t", "N", "o", "d", "e">>
Name_Component == <<"C", "o", "m", "p", "o", "n", "e", "n", "t">>

\* names of the bounded inputs
Name_empty == <<>>
Name_App == <<"A", "p", "p">>
Name_Btn == <<"B", "t", "n">>
Name_Card == <<"C", "a", "r", "d">>
Name_app == <<"a", "p", "p">>
Name_div == <<"d", "i", "v">>
Name_ui == <<"u", "i">>
Name_UI == <<"U", "I">>
Name_under == <<"_", "A", "p", "p">>
Name_foobar == <<"f", "o", "o", "b", "a", "r">>
Name_helper == <<"h", "e", "l", "p", "e", "r">>
Name_render == <<"r", "e", "n", "d", "e", "r">>
Name_rt == <<"r", "t">>
Name_Props == <<"P", "r", "o", "p", "s">>
Name_Root == <<"R", "o", "o", "t">>
Name_Item == <<"I", "t", "e", "m">>

(***************************************************************************)
(* The syntax tree the parser hands over (oxc::ast::ast): one record per    *)
(* node, "kind" naming the enum variant.                                    *)
(***************************************************************************)
None == [kind |-> "None"]
is_some(opt) == opt.kind # "None"

\* Expression
\* the opening tag, which holds the name, ends before the first child; a
\* self-closing element is its opening tag
JSXElement(name, span, children) ==
    [kind |-> "JSXElement", span |-> span,
     opening_element |->
        [name |-> name,
         span |-> IF children = <<>> THEN span ELSE Span(span.start, span.start + 1)],
     children |-> children]
JSXFragment(children) == [kind |-> "JSXFragment", children |-> children]
\* a childless element with one attribute: <name attr={value}/>
JSXElementWithAttribute(name, span, value) ==
    [kind |-> "JSXElement", span |-> span,
     opening_element |->
        [name |-> name, span |-> span,
         attributes |-> <<[kind |-> "JSXAttribute",
                           value |-> [kind |-> "JSXExpressionContainer",
                                      expression |-> value]]>>],
     children |-> <<>>]
CallExpression(callee, arguments) ==
    [kind |-> "CallExpression", callee |-> callee, arguments |-> arguments]
Identifier(name) == [kind |-> "Identifier", name |-> name]
StaticMemberExpression(object, property) ==
    [kind |-> "StaticMemberExpression", object |-> object,
     property |-> [name |-> property]]
ComputedMemberExpression(object, expression) ==
    [kind |-> "ComputedMemberExpression", object |-> object, expression |-> expression]
SequenceExpression(expressions) ==
    [kind |-> "SequenceExpression", expressions |-> expressions]
ParenthesizedExpression(expression) ==
    [kind |-> "ParenthesizedExpression", expression |-> expression]
ArrowFunctionExpression(expression, statements) ==
    [kind |-> "ArrowFunctionExpression", expression |-> expression,
     body |-> [statements |-> statements]]
FunctionExpression(body) == [kind |-> "FunctionExpression", body |-> body]
FunctionBody(statements) == [kind |-> "FunctionBody", statements |-> statements]
ObjectExpression(properties) == [kind |-> "ObjectExpression", properties |-> properties]
StringLiteral(value) == [kind |-> "StringLiteral", value |-> value]
NumericLiteral == [kind |-> "NumericLiteral"]
NullLiteral == [kind |-> "NullLiteral"]
ConditionalExpression(consequent, alternate) ==
    [kind |-> "ConditionalExpression", consequent |-> consequent, alternate |-> alternate]
ThisExpression == [kind |-> "ThisExpression"]
LogicalExpression(left, right) ==
    [kind |-> "LogicalExpression", left |-> left, right |-> right]

\* Argument: an Expression or a SpreadElement; Argument::as_expression
SpreadElement(argument) == [kind |-> "SpreadElement", argument |-> argument]
argument_as_expression(argument) ==
    IF argument.kind = "SpreadElement" THEN None ELSE argument

\* JSXElementName, JSXMemberExpressionObject, JSXChild
JSXIdentifier(name) == [kind |-> "Identifier", name |-> name]
JSXIdentifierReference(name) == [kind |-> "IdentifierReference", name |-> name]
JSXMemberExpression(object, property) ==
    [kind |-> "MemberExpression", object |-> object, property |-> property]
JSXNamespacedName(namespace, name) ==
    [kind |-> "NamespacedName", namespace |-> namespace, name |-> name]
JSXThis == [kind |-> "ThisExpression"]
JSXText == [kind |-> "JSXText"]
JSXExpressionContainer(expression) ==
    [kind |-> "JSXExpressionContainer", expression |-> expression]

\* Statement
ReturnStatement(argument) == [kind |-> "ReturnStatement", argument |-> argument]
ExpressionStatement(expression) ==
    [kind |-> "ExpressionStatement", expression |-> expression]
BlockStatement(body) == [kind |-> "BlockStatement", body |-> body]
IfStatement(consequent, alternate) ==
    [kind |-> "IfStatement", consequent |-> consequent, alternate |-> alternate]
WhileStatement(body) == [kind |-> "WhileStatement", body |-> body]
ForStatement(body) == [kind |-> "ForStatement", body |-> body]
TryStatement(block) == [kind |-> "TryStatement", block |-> block]
SwitchStatement(cases) == [kind |-> "SwitchStatement", cases |-> cases]
SwitchCase(consequent) == [consequent |-> consequent]
EmptyStatement == [kind |-> "EmptyStatement"]
VariableDeclarator(id, init) == [id |-> id, init |-> init]
VariableDeclaration(declarations) ==
    [kind |-> "VariableDeclaration", declarations |-> declarations]
FunctionDeclaration(id, return_type, body) ==
    [kind |-> "FunctionDeclaration", id |-> id, return_type |-> return_type,
     body |-> body]
ClassDeclaration == [kind |-> "ClassDeclaration"]
ExportDefaultDeclaration(declaration) ==
    [kind |-> "ExportDefaultDeclaration", declaration |-> declaration]
ExportSpecifier(local, exported) == [local |-> local, exported |-> exported]
ExportNamedDeclaration(declaration, specifiers) ==
    [kind |-> "ExportNamedDeclaration", declaration |-> declaration,
     specifiers |-> specifiers]
ImportSpecifier(import_kind, imported, local) ==
    [kind |-> "ImportSpecifier", import_kind |-> import_kind,
     imported |-> imported, local |-> [name |-> local]]
ImportDefaultSpecifier(local) ==
    [kind |-> "ImportDefaultSpecifier", local |-> [name |-> local]]
ImportNamespaceSpecifier(local) ==
    [kind |-> "ImportNamespaceSpecifier", local |-> [name |-> local]]
SomeSpecifiers(list) == [kind |-> "Some", list |-> list]
ImportDeclaration(import_kind, specifiers, value, span) ==
    [kind |-> "ImportDeclaration", import_kind |-> import_kind,
     specifiers |-> specifiers, source |-> [value |-> value, span |-> span]]

\* ExportDefaultDeclarationKind inherits the variants of Expression and adds
\* three declaration kinds; as_expression is None for those three.
export_default_as_expression(declaration) ==
    IF declaration.kind \in
         {"FunctionDeclaration", "ClassDeclaration", "TSInterfaceDeclaration"}
    THEN None
    ELSE declaration

\* ModuleExportName
ModuleExportName(kind, name) == [kind |-> kind, name |-> name]

\* ObjectPropertyKind and PropertyKey
ObjectProperty(key) == [kind |-> "ObjectProperty", key |-> key]
SpreadProperty == [kind |-> "SpreadProperty"]
StaticIdentifier(name) == [kind |-> "StaticIdentifier", name |-> name]

\* TSType, TSTypeName, TSTypeAnnotation, BindingPattern
TSTypeReference(type_name) == [kind |-> "TSTypeReference", type_name |-> type_name]
TSIdentifierReference(name) == [kind |-> "IdentifierReference", name |-> name]
TSQualifiedName(left, right) == [kind |-> "QualifiedName", left |-> left, right |-> right]
TSStringKeyword == [kind |-> "TSStringKeyword"]
TSArrayType(element_type) == [kind |-> "TSArrayType", element_type |-> element_type]
TSTypeAnnotation(ts_type) == [kind |-> "TSTypeAnnotation", type_annotation |-> ts_type]
BindingIdentifier(name, span) ==
    [kind |-> "BindingIdentifier", name |-> name, span |-> span]
ObjectPattern == [kind |-> "ObjectPattern"]
BindingPattern(binding_kind, type_annotation) ==
    [kind |-> binding_kind, type_annotation |-> type_annotation]

(***************************************************************************)
(* component.rs                                                            *)
(***************************************************************************)
ReactTypeNames ==
    {Name_FC, Name_FunctionComponent, Name_VFC, Name_ReactElement, Name_ReactNode,
     Name_Component}

JsxRuntimeNames == {Name_jsx, Name_jsxs, Name_jsxDEV, Name_Fragment}

\* a type check that knows FC only
is_react_type_annotation_fc_only(ts_type) ==
    IF ts_type.kind = "TSTypeReference"
    THEN IF ts_type.type_name.kind = "IdentifierReference"
         THEN ts_type.type_name.name = Name_FC
         ELSE FALSE
    ELSE FALSE

is_react_type_annotation(ts_type) ==
    IF ts_type.kind = "TSTypeReference"
    THEN IF ts_type.type_name.kind = "IdentifierReference"
         THEN ts_type.type_name.name \in ReactTypeNames
         ELSE FALSE
    ELSE FALSE

has_react_type(binding) ==
    IF is_some(binding.type_annotation)
    THEN is_react_type_annotation(binding.type_annotation.type_annotation)
    ELSE FALSE

\* a markup test that looks through one pair of parentheses
is_jsx_element_or_fragment_unwrapping(expr) ==
    \/ expr.kind \in {"JSXElement", "JSXFragment"}
    \/ /\ expr.kind = "ParenthesizedExpression"
       /\ expr.expression.kind \in {"JSXElement", "JSXFragment"}
is_jsx_element_or_fragment(expr) == expr.kind \in {"JSXElement", "JSXFragment"}

\* a runtime-call test that looks the property of a member access up in the
\* imported identifiers
is_jsx_runtime_call_imported_members(expr, ids) ==
    IF expr.kind = "CallExpression"
    THEN IF expr.callee.kind = "Identifier"
         THEN expr.callee.name \in ids
         ELSE LET actual_callee ==
                      IF expr.callee.kind = "ParenthesizedExpression"
                      THEN expr.callee.expression
                      ELSE expr.callee
              IN  IF /\ actual_callee.kind = "SequenceExpression"
                     /\ Len(actual_callee.expressions) > 0
                  THEN LET last_expr ==
                               actual_callee.expressions[Len(actual_callee.expressions)]
                       IN  CASE last_expr.kind = "Identifier" ->
                                    last_expr.name \in ids
                             [] last_expr.kind = "StaticMemberExpression" ->
                                    last_expr.property.name \in ids
                             [] /\ last_expr.kind = "ComputedMemberExpression"
                                /\ last_expr.expression.kind = "StringLiteral" ->
                                    last_expr.expression.value \in ids
                             [] OTHER -> FALSE
                  ELSE FALSE
    ELSE FALSE

is_jsx_runtime_call(expr, ids) ==
    IF expr.kind = "CallExpression"
    THEN IF expr.callee.kind = "Identifier"
         THEN expr.callee.name \in ids
         ELSE LET actual_callee ==
                      IF expr.callee.kind = "ParenthesizedExpression"
                      THEN expr.callee.expression
                      ELSE expr.callee
              IN  IF /\ actual_callee.kind = "SequenceExpression"
                     /\ Len(actual_callee.expressions) > 0
                  THEN LET last_expr ==
                               actual_callee.expressions[Len(actual_callee.expressions)]
                       IN  CASE last_expr.kind = "Identifier" ->
                                    last_expr.name \in ids
                             [] last_expr.kind = "StaticMemberExpression" ->
                                    last_expr.property.name \in JsxRuntimeNames
                             [] /\ last_expr.kind = "ComputedMemberExpression"
                                /\ last_expr.expression.kind = "StringLiteral" ->
                                    last_expr.expression.value \in JsxRuntimeNames
                             [] OTHER -> FALSE
                  ELSE FALSE
    ELSE FALSE

\* a wrapper test that knows memo and not forwardRef
is_react_hoc_memo_only(call_expr) ==
    IF /\ call_expr.callee.kind = "StaticMemberExpression"
       /\ call_expr.callee.object.kind = "Identifier"
       /\ call_expr.callee.object.name = Name_React
       /\ call_expr.callee.property.name = Name_memo
    THEN TRUE
    ELSE IF call_expr.callee.kind = "Identifier"
         THEN call_expr.callee.name = Name_memo
         ELSE FALSE

is_react_hoc(call_expr) ==
    IF /\ call_expr.callee.kind = "StaticMemberExpression"
       /\ call_expr.callee.object.kind = "Identifier"
       /\ call_expr.callee.object.name = Name_React
       /\ call_expr.callee.property.name \in {Name_forwardRef, Name_memo}
    THEN TRUE
    ELSE IF call_expr.callee.kind = "Identifier"
         THEN call_expr.callee.name \in {Name_forwardRef, Name_memo}
         ELSE FALSE

\* a return test that knows elements and not fragments
returns_jsx_element_only(stmt, ids) ==
    IF stmt.kind = "ReturnStatement"
    THEN IF is_some(stmt.argument)
         THEN \/ stmt.argument.kind = "JSXElement"
              \/ is_jsx_runtime_call(stmt.argument, ids)
         ELSE FALSE
    ELSE FALSE

returns_jsx(stmt, ids) ==
    IF stmt.kind = "ReturnStatement"
    THEN IF is_some(stmt.argument)
         THEN \/ is_jsx_element_or_fragment(stmt.argument)
              \/ is_jsx_runtime_call(stmt.argument, ids)
         ELSE FALSE
    ELSE FALSE

has_jsx_return(statements, ids) ==
    \E i \in DOMAIN statements : returns_jsx(statements[i], ids)

\* the arms of the match are tried in order
RECURSIVE contains_jsx(_, _)
contains_jsx(expr, ids) ==
    IF is_jsx_element_or_fragment(expr) THEN TRUE
    ELSE IF is_jsx_runtime_call(expr, ids) THEN TRUE
    ELSE IF expr.kind = "CallExpression" /\ is_react_hoc(expr)
         THEN IF /\ Len(expr.arguments) > 0
                 /\ is_some(argument_as_expression(expr.arguments[1]))
              THEN contains_jsx(argument_as_expression(expr.arguments[1]),
                                ids)
              ELSE FALSE
    ELSE IF expr.kind = "ArrowFunctionExpression"
         THEN IF expr.expression
              THEN \E i \in DOMAIN expr.body.statements :
                      LET stmt == expr.body.statements[i]
                      IN  /\ stmt.kind = "ExpressionStatement"
                          /\ \/ is_jsx_element_or_fragment(stmt.expression)
                             \/ is_jsx_runtime_call(stmt.expression,
                                                    ids)
              ELSE has_jsx_return(expr.body.statements, ids)
    ELSE IF expr.kind = "FunctionExpression"
         THEN /\ is_some(expr.body)
              /\ has_jsx_return(expr.body.statements, ids)
    ELSE FALSE

\* a classification that looks at the type before the name
is_react_component_type_first(name, binding, init, ids) ==
    IF has_react_type(binding) THEN TRUE
    ELSE IF ~is_pascal_case(name) THEN FALSE
    ELSE IF is_some(init) THEN contains_jsx(init, ids)
    ELSE FALSE

is_react_component(name, binding, init, ids) ==
    IF ~is_pascal_case(name) THEN FALSE
    ELSE IF has_react_type(binding) THEN TRUE
    ELSE IF is_some(init) THEN contains_jsx(init, ids)
    ELSE FALSE

is_react_function_component(name, return_type, body, ids) ==
    IF ~is_pascal_case(name) THEN FALSE
    ELSE IF /\ is_some(return_type)
            /\ is_react_type_annotation(return_type.type_annotation)
         THEN TRUE
    ELSE IF is_some(body) THEN has_jsx_return(body.statements, ids)
    ELSE FALSE

(***************************************************************************)
(* jsx.rs.  The usages vector is threaded through: each operator takes the  *)
(* vector so far and gives the vector after the call.                       *)
(***************************************************************************)
\* an entry (String, Span) of a vector
Usage(name, span) == [name |-> name, span |-> span]

RECURSIVE collect_jsx_from_element(_, _)
RECURSIVE collect_jsx_from_children(_, _, _)
RECURSIVE collect_jsx_from_statement(_, _)
RECURSIVE collect_jsx_from_statements(_, _, _)
RECURSIVE collect_jsx_from_expression(_, _)
RECURSIVE collect_jsx_from_declarators(_, _, _)

\* an element match without the is_pascal_case checks
element_usage_any_case(jsx_elem) ==
    LET name == jsx_elem.opening_element.name
    IN  IF name.kind \in {"Identifier", "IdentifierReference"}
        THEN <<Usage(name.name, jsx_elem.span)>>
        ELSE IF name.kind = "MemberExpression"
        THEN IF name.object.kind = "IdentifierReference"
             THEN <<Usage(name.object.name, jsx_elem.span)>> ELSE <<>>
        ELSE <<>>

\* an element match that names a dotted tag by its property
element_usage_property(jsx_elem) ==
    LET name == jsx_elem.opening_element.name
    IN  IF name.kind \in {"Identifier", "IdentifierReference"}
        THEN IF is_pascal_case(name.name)
             THEN <<Usage(name.name, jsx_elem.span)>> ELSE <<>>
        ELSE IF name.kind = "MemberExpression"
        THEN IF name.object.kind = "IdentifierReference"
             THEN IF is_pascal_case(name.object.name)
                  THEN <<Usage(name.property, jsx_elem.span)>> ELSE <<>>
             ELSE <<>>
        ELSE <<>>

\* an element match that pushes the span of the opening tag
element_usage_opening_span(jsx_elem) ==
    LET name == jsx_elem.opening_element.name
    IN  IF name.kind \in {"Identifier", "IdentifierReference"}
        THEN IF is_pascal_case(name.name)
             THEN <<Usage(name.name, jsx_elem.opening_element.span)>> ELSE <<>>
        ELSE IF name.kind = "MemberExpression"
        THEN IF name.object.kind = "IdentifierReference"
             THEN IF is_pascal_case(name.object.name)
                  THEN <<Usage(name.object.name, jsx_elem.opening_element.span)>>
                  ELSE <<>>
             ELSE <<>>
        ELSE <<>>

\* the match on jsx_elem.opening_element.name: what the element itself pushes
element_usage(jsx_elem) ==
    LET name == jsx_elem.opening_element.name
    IN  IF name.kind = "Identifier"
        THEN IF is_pascal_case(name.name)
             THEN <<Usage(name.name, jsx_elem.span)>> ELSE <<>>
        ELSE IF name.kind = "IdentifierReference"
        THEN IF is_pascal_case(name.name)
             THEN <<Usage(name.name, jsx_elem.span)>> ELSE <<>>
        ELSE IF name.kind = "MemberExpression"
        THEN IF name.object.kind = "IdentifierReference"
             THEN IF is_pascal_case(name.object.name)
                  THEN <<Usage(name.object.name, jsx_elem.span)>> ELSE <<>>
             ELSE <<>>
        ELSE <<>>

\* a loop that follows the element in an expression container as well
collect_jsx_from_children_containers(children, k, usages) ==
    IF k > Len(children) THEN usages
    ELSE collect_jsx_from_children(children, k + 1,
            IF children[k].kind = "JSXElement"
            THEN collect_jsx_from_element(children[k], usages)
            ELSE IF children[k].kind = "JSXExpressionContainer"
            THEN collect_jsx_from_expression(children[k].expression, usages)
            ELSE usages)

\* for child in children.iter(): only JSXChild::Element is followed
collect_jsx_from_children(children, k, usages) ==
    IF k > Len(children) THEN usages
    ELSE collect_jsx_from_children(children, k + 1,
            IF children[k].kind = "JSXElement"
            THEN collect_jsx_from_element(children[k], usages)
            ELSE usages)

\* variant: the children of an element that pushed nothing are not visited
collect_jsx_from_element_qualifying(jsx_elem, usages) ==
    IF element_usage(jsx_elem) = <<>> THEN usages
    ELSE collect_jsx_from_children(jsx_elem.children, 1,
                                   usages \o element_usage(jsx_elem))
\* variant: the element pushes its entry after its children were visited
collect_jsx_from_element_children_first(jsx_elem, usages) ==
    collect_jsx_from_children(jsx_elem.children, 1, usages) \o element_usage(jsx_elem)
collect_jsx_from_element(jsx_elem, usages) ==
    collect_jsx_from_children(jsx_elem.children, 1, usages \o element_usage(jsx_elem))

collect_jsx_from_expression(expr, usages) ==
    IF expr.kind = "JSXElement" THEN collect_jsx_from_element(expr, usages)
    ELSE IF expr.kind = "JSXFragment"
         THEN collect_jsx_from_children(expr.children, 1, usages)
    ELSE IF expr.kind = "ParenthesizedExpression"
         THEN collect_jsx_from_expression(expr.expression, usages)
    ELSE IF expr.kind = "ArrowFunctionExpression"
         THEN collect_jsx_from_statements(expr.body.statements, 1, usages)
    ELSE IF expr.kind = "FunctionExpression"
         THEN IF is_some(expr.body)
              THEN collect_jsx_from_statements(expr.body.statements, 1, usages)
              ELSE usages
    ELSE usages

\* for stmt in statements.iter() { collect_jsx_from_statement(stmt, usages) }
collect_jsx_from_statements(statements, k, usages) ==
    IF k > Len(statements) THEN usages
    ELSE collect_jsx_from_statements(statements, k + 1,
            collect_jsx_from_statement(statements[k], usages))

\* for declarator in var_decl.declarations.iter()
collect_jsx_from_declarators(declarations, k, usages) ==
    IF k > Len(declarations) THEN usages
    ELSE collect_jsx_from_declarators(declarations, k + 1,
            IF is_some(declarations[k].init)
            THEN collect_jsx_from_expression(declarations[k].init, usages)
            ELSE usages)

collect_jsx_from_statement(stmt, usages) ==
    IF stmt.kind = "ReturnStatement"
    THEN IF is_some(stmt.argument)
         THEN collect_jsx_from_expression(stmt.argument, usages)
         ELSE usages
    ELSE IF stmt.kind = "ExpressionStatement"
    THEN collect_jsx_from_expression(stmt.expression, usages)
    ELSE IF stmt.kind = "VariableDeclaration"
    THEN collect_jsx_from_declarators(stmt.declarations, 1, usages)
    ELSE IF stmt.kind = "ExportNamedDeclaration"
    THEN IF is_some(stmt.declaration)
         THEN IF stmt.declaration.kind = "VariableDeclaration"
              THEN collect_jsx_from_declarators(stmt.declaration.declarations, 1, usages)
              ELSE IF stmt.declaration.kind = "FunctionDeclaration"
              THEN IF is_some(stmt.declaration.body)
                   THEN collect_jsx_from_statements(
                            stmt.declaration.body.statements, 1, usages)
                   ELSE usages
              ELSE usages
         ELSE usages
    ELSE IF stmt.kind = "ExportDefaultDeclaration"
    THEN IF is_some(export_default_as_expression(stmt.declaration))
         THEN collect_jsx_from_expression(
                  export_default_as_expression(stmt.declaration), usages)
         ELSE IF /\ stmt.declaration.kind = "FunctionDeclaration"
                 /\ is_some(stmt.declaration.body)
              THEN collect_jsx_from_statements(
                       stmt.declaration.body.statements, 1, usages)
              ELSE usages
    ELSE IF stmt.kind = "BlockStatement"
    THEN collect_jsx_from_statements(stmt.body, 1, usages)
    ELSE IF stmt.kind = "IfStatement"
    THEN LET after == collect_jsx_from_statement(stmt.consequent, usages)
         IN  IF is_some(stmt.alternate)
             THEN collect_jsx_from_statement(stmt.alternate, after)
             ELSE after
    ELSE usages

collect_jsx_usages(statements) == collect_jsx_from_statements(statements, 1, <<>>)

(***************************************************************************)
(* lib.rs: the passes of AnalyzeReactBoundary::analyze                      *)
(***************************************************************************)
\* SourceType::from_extension: the extensions the parser recognises
KnownExtensions == {"js", "mjs", "cjs", "jsx", "ts", "mts", "cts", "tsx"}

Ok(value) == [kind |-> "Ok", value |-> value]
Err(message) == [kind |-> "Err", message |-> message]

\* format!("{}: {}", e.to_string().replace("\"", ""), extension)
extension_error(ext) == Err(<<"unknown extension", ": ", ext>>)

\* format!("Error: {} with code {}", error.message, source_code_error)
parse_error(error, source) ==
    Err(<<"Error: ", error.message, " with code ",
          [error |-> error, source_code |-> source]>>)

\* HashMap<String, Span>: a function from the keys to their spans
EmptyMap == [name \in {} |-> None]
contains_key(map, key) == key \in DOMAIN map
\* an insert that keeps the span a key already has
insert_keep_first(map, key, value) ==
    [k \in DOMAIN map \cup {key} |-> IF k \in DOMAIN map THEN map[k] ELSE value]
insert(map, key, value) ==
    [k \in DOMAIN map \cup {key} |-> IF k = key THEN value ELSE map[k]]

\* a scan that looks at the first directive only
scan_directives_first_only(directives) ==
    Len(directives) > 0 /\ directives[1].directive = "use client"

\* program.directives.iter().any(|directive| directive.directive == "use client")
scan_directives(directives) ==
    \E i \in DOMAIN directives : directives[i].directive = "use client"

\* a specifier map that takes the imported name of a named specifier
import_identifiers_imported_names(specifiers, k) ==
    LET kept(spec) ==
            IF spec.kind = "ImportSpecifier"
            THEN IF spec.import_kind = "Type" THEN <<>> ELSE <<spec.imported>>
            ELSE <<spec.local.name>>
        names[i \in 0..Len(specifiers)] ==
            IF i = 0 THEN <<>> ELSE names[i - 1] \o kept(specifiers[i])
    IN  names[Len(specifiers)]

\* a specifier map that keeps the type-only specifiers
import_identifiers_with_types(specifiers, k) ==
    [i \in 1..Len(specifiers) |-> specifiers[i].local.name]

\* the filter_map over one import statement's specifiers
RECURSIVE import_identifiers(_, _)
import_identifiers(specifiers, k) ==
    IF k > Len(specifiers) THEN <<>>
    ELSE LET spec == specifiers[k]
             kept == IF spec.kind = "ImportSpecifier"
                     THEN IF spec.import_kind = "Type" THEN <<>>
                          ELSE <<spec.local.name>>
                     ELSE <<spec.local.name>>
         IN  kept \o import_identifiers(specifiers, k + 1)

\* a collection that makes no record of an import that binds no value
RECURSIVE collect_imports_binding(_, _, _)
collect_imports_binding(source, body, k) ==
    IF k > Len(body) THEN <<>>
    ELSE LET statement == body[k]
             names == IF /\ statement.kind = "ImportDeclaration"
                         /\ is_some(statement.specifiers)
                      THEN import_identifiers(statement.specifiers.list, 1)
                      ELSE <<>>
             record ==
                IF /\ statement.kind = "ImportDeclaration"
                   /\ statement.import_kind # "Type"
                   /\ names # <<>>
                THEN <<[identifier |-> names,
                        source |-> statement.source.value,
                        source_span |->
                           string_literal_to_range(source, statement.source.span)]>>
                ELSE <<>>
         IN  record \o collect_imports_binding(source, body, k + 1)

\* the filter_map over program.body that builds `imports`
RECURSIVE collect_imports(_, _, _)
collect_imports(source, body, k) ==
    IF k > Len(body) THEN <<>>
    ELSE LET statement == body[k]
             record ==
                IF statement.kind = "ImportDeclaration"
                THEN IF statement.import_kind = "Type" THEN <<>>
                     ELSE <<[identifier |->
                                IF is_some(statement.specifiers)
                                THEN import_identifiers(statement.specifiers.list, 1)
                                ELSE <<>>,
                             source |-> statement.source.value,
                             source_span |->
                                string_literal_to_range(source, statement.source.span)]>>
                ELSE <<>>
         IN  record \o collect_imports(source, body, k + 1)

\* .flat_map(|import| import.identifier.iter().cloned()).collect()
identifiers_of(import_records, kept) ==
    UNION {{import_records[i].identifier[j] : j \in DOMAIN import_records[i].identifier}
            : i \in kept}

is_jsx_runtime_import(import) == import.source = "react/jsx-runtime"

\* lines 103-107
collect_jsx_runtime_identifiers(import_records) ==
    identifiers_of(import_records,
        {i \in DOMAIN import_records : is_jsx_runtime_import(import_records[i])})

\* lines 313-316
collect_imported_identifiers(import_records) ==
    identifiers_of(import_records, DOMAIN import_records)

\* First pass, lines 113-151: the declarators of one variable declaration
RECURSIVE classify_declarators(_, _, _, _)
classify_declarators(declarations, k, ids, decls) ==
    IF k > Len(declarations) THEN decls
    ELSE LET declarator == declarations[k]
             ident == declarator.id.kind
         IN  classify_declarators(declarations, k + 1, ids,
                IF /\ ident.kind = "BindingIdentifier"
                   /\ is_react_component(ident.name, declarator.id, declarator.init, ids)
                THEN insert(decls, ident.name, ident.span)
                ELSE decls)

classify_statement(statement, ids, decls) ==
    IF statement.kind = "VariableDeclaration"
    THEN classify_declarators(statement.declarations, 1, ids, decls)
    ELSE IF statement.kind = "FunctionDeclaration"
    THEN IF /\ is_some(statement.id)
            /\ is_react_function_component(statement.id.name, statement.return_type,
                                           statement.body, ids)
         THEN insert(decls, statement.id.name, statement.id.span)
         ELSE decls
    ELSE decls

RECURSIVE first_pass(_, _, _, _)
first_pass(body, k, ids, decls) ==
    IF k > Len(body) THEN decls
    ELSE first_pass(body, k + 1, ids,
                    classify_statement(body[k], ids, decls))

\* component::analyze_function_declaration: Some((name, span)) of a function
\* declaration that is a component, None otherwise
analyze_function_declaration(func_decl, ids) ==
    IF /\ is_some(func_decl.id)
       /\ is_react_function_component(func_decl.id.name, func_decl.return_type,
                                      func_decl.body, ids)
    THEN [kind |-> "Some", name |-> func_decl.id.name, span |-> func_decl.id.span]
    ELSE None

\* The export passes work on the pair of exported and
\* decls.
ExportState(exported, decls) ==
    [exported |-> exported,
     decls |-> decls]

\* a registration that exports a name once
register_component_once(name, span, st) ==
    ExportState(IF \E k \in DOMAIN st.exported : st.exported[k].name = name
                THEN st.exported
                ELSE Append(st.exported, Usage(name, span)),
                insert(st.decls, name, span))

register_component(name, span, st) ==
    ExportState(Append(st.exported, Usage(name, span)),
                insert(st.decls, name, span))

\* an export that looks nothing up
export_if_declared_always(name, st) ==
    ExportState(Append(st.exported,
                       Usage(name, IF contains_key(st.decls, name)
                                   THEN st.decls[name] ELSE Span(0, 0))),
                st.decls)

\* an export that takes every uppercase-led name, declared or not
export_if_declared_uppercase(name, st) ==
    IF is_pascal_case(name)
    THEN ExportState(Append(st.exported,
                            Usage(name, IF contains_key(st.decls, name)
                                        THEN st.decls[name] ELSE Span(0, 0))),
                     st.decls)
    ELSE st

\* if let Some(&span) = decls.get(&name) { push((name, span)) }
export_if_declared(name, st) ==
    IF contains_key(st.decls, name)
    THEN ExportState(Append(st.exported,
                            Usage(name, st.decls[name])),
                     st.decls)
    ELSE st

\* a loop that takes a quoted key as well
RECURSIVE export_call_properties_quoted(_, _, _)
export_call_properties_quoted(properties, k, st) ==
    IF k > Len(properties) THEN st
    ELSE export_call_properties_quoted(properties, k + 1,
            IF properties[k].kind # "ObjectProperty" THEN st
            ELSE IF properties[k].key.kind = "StaticIdentifier"
            THEN export_if_declared(properties[k].key.name, st)
            ELSE IF properties[k].key.kind = "StringLiteral"
            THEN export_if_declared(properties[k].key.value, st)
            ELSE st)

\* lines 179-190: the properties of the object literal of an __export call
RECURSIVE export_call_properties(_, _, _)
export_call_properties(properties, k, st) ==
    IF k > Len(properties) THEN st
    ELSE export_call_properties(properties, k + 1,
            IF /\ properties[k].kind = "ObjectProperty"
               /\ properties[k].key.kind = "StaticIdentifier"
            THEN export_if_declared(properties[k].key.name, st)
            ELSE st)

\* lines 169-191: one statement of the __export pass
export_call_statement(statement, st) ==
    IF /\ statement.kind = "ExpressionStatement"
       /\ statement.expression.kind = "CallExpression"
       /\ statement.expression.callee.kind = "Identifier"
       /\ statement.expression.callee.name = Name_export
       /\ Len(statement.expression.arguments) >= 2
       /\ is_some(argument_as_expression(statement.expression.arguments[2]))
       /\ statement.expression.arguments[2].kind = "ObjectExpression"
    THEN export_call_properties(statement.expression.arguments[2].properties, 1, st)
    ELSE st

RECURSIVE export_call_pass(_, _, _)
export_call_pass(body, k, st) ==
    IF k > Len(body) THEN st
    ELSE export_call_pass(body, k + 1, export_call_statement(body[k], st))

\* lines 227-248: the declarators of an exported variable declaration
RECURSIVE export_declarators(_, _, _, _)
export_declarators(declarations, k, ids, st) ==
    IF k > Len(declarations) THEN st
    ELSE LET declarator == declarations[k]
             ident == declarator.id.kind
         IN  export_declarators(declarations, k + 1, ids,
                IF /\ ident.kind = "BindingIdentifier"
                   /\ is_react_component(ident.name, declarator.id, declarator.init, ids)
                THEN register_component(ident.name, ident.span, st)
                ELSE st)

\* a loop that looks up the local name of a specifier
RECURSIVE export_specifiers_local(_, _, _)
export_specifiers_local(specifiers, k, st) ==
    IF k > Len(specifiers) THEN st
    ELSE export_specifiers_local(specifiers, k + 1,
                                 export_if_declared(specifiers[k].local.name, st))

\* lines 268-281: the specifiers of `export { ... }`
RECURSIVE export_specifiers(_, _, _)
export_specifiers(specifiers, k, st) ==
    IF k > Len(specifiers) THEN st
    ELSE export_specifiers(specifiers, k + 1,
                           export_if_declared(specifiers[k].exported.name, st))

export_function(func_decl, ids, st) ==
    LET found == analyze_function_declaration(func_decl, ids)
    IN  IF is_some(found) THEN register_component(found.name, found.span, st) ELSE st

\* lines 195-285: one statement of the export pass
export_statement(statement, ids, st) ==
    IF statement.kind = "ExportDefaultDeclaration"
    THEN IF statement.declaration.kind = "Identifier"
         THEN export_if_declared(statement.declaration.name, st)
         ELSE IF statement.declaration.kind = "FunctionDeclaration"
         THEN export_function(statement.declaration, ids, st)
         ELSE st
    ELSE IF statement.kind = "ExportNamedDeclaration"
    THEN IF is_some(statement.declaration)
         THEN IF statement.declaration.kind = "VariableDeclaration"
              THEN export_declarators(statement.declaration.declarations, 1, ids, st)
              ELSE IF statement.declaration.kind = "FunctionDeclaration"
              THEN export_function(statement.declaration, ids, st)
              ELSE st
         ELSE IF Len(statement.specifiers) > 0
         THEN export_specifiers(statement.specifiers, 1, st)
         ELSE st
    ELSE st

RECURSIVE export_pass(_, _, _, _)
export_pass(body, k, ids, st) ==
    IF k > Len(body) THEN st
    ELSE export_pass(body, k + 1, ids, export_statement(body[k], ids, st))

\* lines 288-296
to_components(source, exported, has_use_client) ==
    [i \in DOMAIN exported |->
        [name |-> exported[i].name,
         is_client_component |-> has_use_client,
         range |-> span_to_range(source, exported[i].span)]]

\* a map to JsxUsage that filters nothing
filter_jsx_usages_keep_all(source, raw, k, imported) ==
    [i \in 1..Len(raw) |->
        [component_name |-> raw[i].name,
         range |-> span_to_range(source, raw[i].span)]]

\* lines 322-329: filter by the imported identifiers, then map to JsxUsage
RECURSIVE filter_jsx_usages(_, _, _, _)
filter_jsx_usages(source, raw, k, imported) ==
    IF k > Len(raw) THEN <<>>
    ELSE (IF raw[k].name \in imported
          THEN <<[component_name |-> raw[k].name,
                  range |-> span_to_range(source, raw[k].span)]>>
          ELSE <<>>)
         \o filter_jsx_usages(source, raw, k + 1, imported)

(***************************************************************************)
(* Spec: analyze(content, extension)                                        *)
(***************************************************************************)
\* an extension check that comes after the parse
RejectExtensionAfterParse ==
    /\ pc = "start"
    /\ content.valid_utf8
    /\ extension \notin KnownExtensions
    /\ locals' = [source_text |-> content.text, ret |-> content.parse]
    /\ result' = extension_error(extension)
    /\ pc' = "returned"
    /\ UNCHANGED <<content, extension, unit_vars>>

\* line 33: ret.errors.into_iter().next()
first_error_or_last(errors) == errors[Len(errors)]
first_error(errors) == errors[1]

\* line 21: String::from_utf8(content).unwrap() panics on bytes that do not
\* decode
DecodePanics ==
    /\ pc = "start"
    /\ ~content.valid_utf8
    /\ pc' = "panicked"
    /\ UNCHANGED <<content, extension, locals, result, unit_vars>>

\* lines 21-23: the extension is not one the parser knows; `?` returns the error
RejectExtension ==
    /\ pc = "start"
    /\ content.valid_utf8
    /\ extension \notin KnownExtensions
    /\ locals' = [source_text |-> content.text]
    /\ result' = extension_error(extension)
    /\ pc' = "returned"
    /\ UNCHANGED <<content, extension, unit_vars>>

\* lines 21-47: the parser panicked and left an error
ParseFails ==
    /\ pc = "start"
    /\ content.valid_utf8
    /\ extension \in KnownExtensions
    /\ content.parse.panicked
    /\ Len(content.parse.errors) > 0
    /\ locals' = [source_text |-> content.text, ret |-> content.parse]
    /\ result' = parse_error(first_error(content.parse.errors), content.text)
    /\ pc' = "returned"
    /\ UNCHANGED <<content, extension, unit_vars>>

\* lines 21-49: the parser did not panic, or panicked without an error
ParseSucceeds ==
    /\ pc = "start"
    /\ content.valid_utf8
    /\ extension \in KnownExtensions
    /\ ~(content.parse.panicked /\ Len(content.parse.errors) > 0)
    /\ locals' = [source_text |-> content.text, ret |-> content.parse]
    /\ pc' = "parsed"
    /\ UNCHANGED <<content, extension, result, unit_vars>>

\* lines 51-107: the directive scan, the import records and the runtime
\* factory identifiers
ScanModule ==
    /\ pc = "parsed"
    /\ LET found == collect_imports(locals.source_text, locals.ret.program.body, 1)
       IN  locals' =
             [source_text |-> locals.source_text,
              ret |-> locals.ret,
              has_use_client_directive |-> scan_directives(locals.ret.program.directives),
              imports |-> found,
              jsx_runtime_identifiers |-> collect_jsx_runtime_identifiers(found)]
    /\ pc' = "scanned"
    /\ UNCHANGED <<content, extension, result, unit_vars>>

\* lines 110-151: the first pass over program.body
FirstPass ==
    /\ pc = "scanned"
    /\ locals' =
          [source_text |-> locals.source_text,
           ret |-> locals.ret,
           has_use_client_directive |-> locals.has_use_client_directive,
           imports |-> locals.imports,
           jsx_runtime_identifiers |-> locals.jsx_runtime_identifiers,
           component_declarations |->
              first_pass(locals.ret.program.body, 1, locals.jsx_runtime_identifiers,
                         EmptyMap)]
    /\ pc' = "classified"
    /\ UNCHANGED <<content, extension, result, unit_vars>>

\* lines 154-192: the __export pass over program.body
ExportCallPass ==
    /\ pc = "classified"
    /\ LET st == export_call_pass(locals.ret.program.body, 1,
                                  ExportState(<<>>, locals.component_declarations))
       IN  locals' =
             [source_text |-> locals.source_text,
              ret |-> locals.ret,
              has_use_client_directive |-> locals.has_use_client_directive,
              imports |-> locals.imports,
              jsx_runtime_identifiers |-> locals.jsx_runtime_identifiers,
              component_declarations |-> st.decls,
              exported_components |-> st.exported]
    /\ pc' = "export_calls_done"
    /\ UNCHANGED <<content, extension, result, unit_vars>>

\* lines 194-286: the export statement pass over program.body
ExportPass ==
    /\ pc = "export_calls_done"
    /\ LET st == export_pass(locals.ret.program.body, 1, locals.jsx_runtime_identifiers,
                             ExportState(locals.exported_components,
                                         locals.component_declarations))
       IN  locals' = [locals EXCEPT !.component_declarations = st.decls,
                                    !.exported_components = st.exported]
    /\ pc' = "exports_done"
    /\ UNCHANGED <<content, extension, result, unit_vars>>

\* lines 288-336: the components, the usages and the value returned
Finish ==
    /\ pc = "exports_done"
    /\ LET made == to_components(locals.source_text, locals.exported_components,
                                 locals.has_use_client_directive)
           imported == collect_imported_identifiers(locals.imports)
           raw == collect_jsx_usages(locals.ret.program.body)
           kept == filter_jsx_usages(locals.source_text, raw, 1, imported)
       IN  /\ locals' =
                [source_text |-> locals.source_text,
                 ret |-> locals.ret,
                 has_use_client_directive |-> locals.has_use_client_directive,
                 imports |-> locals.imports,
                 jsx_runtime_identifiers |-> locals.jsx_runtime_identifiers,
                 component_declarations |-> locals.component_declarations,
                 exported_components |-> locals.exported_components,
                 components |-> made,
                 imported_identifiers |-> imported,
                 jsx_usages_raw |-> raw,
                 jsx_usages |-> kept]
           /\ result' = Ok([imports |-> locals.imports, components |-> made,
                            jsx_usages |-> kept])
    /\ pc' = "returned"
    /\ UNCHANGED <<content, extension, unit_vars>>

Next ==
    \/ DecodePanics
    \/ RejectExtension
    \/ ParseFails
    \/ ParseSucceeds
    \/ ScanModule
    \/ FirstPass
    \/ ExportCallPass
    \/ ExportPass
    \/ Finish

(***************************************************************************)
(* The modules given to analyze.  Every directive and every top-level       *)
(* statement takes one line of LineWidth bytes; the statement on the line   *)
(* that starts at byte b carries spans inside b .. b + LineWidth.           *)
(***************************************************************************)
IdentSpan(b) == Span(b + 1, b + 3)
SourceSpan(b) == Span(b + 3, b + 6)
\* the outermost markup element of a statement, its j-th child, and the
\* only child of that child
ElementSpan(b) == Span(b + 4, b + LineWidth - 1)
ChildSpan(b, j) == Span(b + 3 + 2 * j, b + 5 + 2 * j)
GrandchildSpan(b, j) == Span(b + 3 + 2 * j, b + 4 + 2 * j)

Tag_div == JSXIdentifier(Name_div)
Tag_ui == JSXIdentifier(Name_ui)
Tag_Btn == JSXIdentifierReference(Name_Btn)
Tag_Card == JSXIdentifierReference(Name_Card)
Tag_UI_Root == JSXMemberExpression(JSXIdentifierReference(Name_UI), Name_Root)
Tag_ui_Root == JSXMemberExpression(JSXIdentifierReference(Name_ui), Name_Root)

Untyped(name, span) == BindingPattern(BindingIdentifier(name, span), None)
Typed(name, span, type_name) ==
    BindingPattern(BindingIdentifier(name, span),
                   TSTypeAnnotation(TSTypeReference(TSIdentifierReference(type_name))))

\* import { Btn } from "./c";
ImportBtn(b) ==
    ImportDeclaration("Value",
        SomeSpecifiers(<<ImportSpecifier("Value", Name_Btn, Name_Btn)>>),
        "./c", SourceSpan(b))
\* import type { Card } from "react/jsx-runtime";
ImportTypeCard(b) ==
    ImportDeclaration("Type",
        SomeSpecifiers(<<ImportSpecifier("Value", Name_Card, Name_Card)>>),
        "react/jsx-runtime", SourceSpan(b))
\* import UI, { type Card, ui } from "./ui";
ImportMixed(b) ==
    ImportDeclaration("Value",
        SomeSpecifiers(<<ImportDefaultSpecifier(Name_UI),
                         ImportSpecifier("Type", Name_Card, Name_Card),
                         ImportSpecifier("Value", Name_ui, Name_ui)>>),
        "./ui", SourceSpan(b))
\* import { type Card, jsx as foobar } from "react/jsx-runtime";
ImportRuntime(b) ==
    ImportDeclaration("Value",
        SomeSpecifiers(<<ImportSpecifier("Type", Name_Card, Name_Card),
                         ImportSpecifier("Value", Name_jsx, Name_foobar)>>),
        "react/jsx-runtime", SourceSpan(b))
\* import foobar, * as jsx from "./c";
ImportFoobar(b) ==
    ImportDeclaration("Value",
        SomeSpecifiers(<<ImportDefaultSpecifier(Name_foobar),
                         ImportNamespaceSpecifier(Name_jsx)>>),
        "./c", SourceSpan(b))
\* import { type Card } from "./c";
ImportOnlyType(b) ==
    ImportDeclaration("Value",
        SomeSpecifiers(<<ImportSpecifier("Type", Name_Card, Name_Card)>>),
        "./c", SourceSpan(b))
\* import "./side";
ImportSide(b) == ImportDeclaration("Value", None, "./side", SourceSpan(b))
\* const Card = () => <div><Btn/>text<ui/></div>;
DeclCard(b) ==
    VariableDeclaration(<<VariableDeclarator(Untyped(Name_Card, IdentSpan(b)),
        ArrowFunctionExpression(TRUE, <<ExpressionStatement(
            JSXElement(Tag_div, ElementSpan(b),
                <<JSXElement(Tag_Btn, ChildSpan(b, 1), <<>>),
                  JSXText,
                  JSXElement(Tag_ui, ChildSpan(b, 2), <<>>)>>))>>))>>)
\* export function App() { return <UI.Root><ui.Root><Card/></ui.Root></UI.Root>; }
ExportFunctionApp(b) ==
    ExportNamedDeclaration(
        FunctionDeclaration(BindingIdentifier(Name_App, IdentSpan(b)), None,
            FunctionBody(<<ReturnStatement(
                JSXElement(Tag_UI_Root, ElementSpan(b),
                    <<JSXElement(Tag_ui_Root, ChildSpan(b, 1),
                        <<JSXElement(Tag_Card, GrandchildSpan(b, 1), <<>>)>>)>>))>>)),
        <<>>)
\* export default Card;
ExportDefaultCard(b) == ExportDefaultDeclaration(Identifier(Name_Card))
\* export { App, Card as Btn };
ExportSpecifiers(b) ==
    ExportNamedDeclaration(None,
        <<ExportSpecifier(ModuleExportName("IdentifierReference", Name_App),
                          ModuleExportName("IdentifierName", Name_App)),
          ExportSpecifier(ModuleExportName("IdentifierReference", Name_Card),
                          ModuleExportName("IdentifierName", Name_Btn))>>)
\* __export(helper, { Card: () => Card, app: () => app, "Btn": () => Btn,
\*                    ...helper });
ExportCall(b) ==
    ExpressionStatement(CallExpression(Identifier(Name_export),
        <<Identifier(Name_helper),
          ObjectExpression(<<ObjectProperty(StaticIdentifier(Name_Card)),
                             ObjectProperty(StaticIdentifier(Name_app)),
                             ObjectProperty(StringLiteral(Name_Btn)),
                             SpreadProperty>>)>>))
\* const Btn = () => foobar("div"), app = () => <Card/>;
DeclBtnRuntime(b) ==
    VariableDeclaration(
        <<VariableDeclarator(Untyped(Name_Btn, IdentSpan(b)),
            ArrowFunctionExpression(TRUE, <<ExpressionStatement(
                CallExpression(Identifier(Name_foobar), <<StringLiteral(Name_div)>>))>>)),
          VariableDeclarator(Untyped(Name_app, Span(b + 4, b + 6)),
            ArrowFunctionExpression(TRUE, <<ExpressionStatement(
                JSXElement(Tag_Card, ElementSpan(b), <<>>))>>))>>)
\* export const Card: FC = memo(helper);
ExportTypedCard(b) ==
    ExportNamedDeclaration(
        VariableDeclaration(<<VariableDeclarator(Typed(Name_Card, IdentSpan(b), Name_FC),
            CallExpression(Identifier(Name_memo), <<Identifier(Name_helper)>>))>>),
        <<>>)

\* export default function App() { return <div/>; }
ExportDefaultApp(b) ==
    ExportDefaultDeclaration(
        FunctionDeclaration(BindingIdentifier(Name_App, IdentSpan(b)), None,
            FunctionBody(<<ReturnStatement(
                JSXElement(Tag_div, ElementSpan(b), <<>>))>>)))

\* var Card = () => <Btn/>, Card = 1;
DeclCardTwice(b) ==
    VariableDeclaration(
        <<VariableDeclarator(Untyped(Name_Card, Span(b + 2, b + 4)),
            ArrowFunctionExpression(TRUE, <<ExpressionStatement(
                JSXElement(Tag_Btn, ElementSpan(b), <<>>))>>)),
          VariableDeclarator(Untyped(Name_Card, Span(b + 5, b + 7)),
            NumericLiteral)>>)

\* export const Item = () => (<Btn/>), Root = function () { return (<Btn/>); };
ExportParenItem(b) ==
    ExportNamedDeclaration(
        VariableDeclaration(
            <<VariableDeclarator(Untyped(Name_Item, IdentSpan(b)),
                ArrowFunctionExpression(TRUE, <<ExpressionStatement(
                    ParenthesizedExpression(
                        JSXElement(Tag_Btn, ChildSpan(b, 1), <<>>)))>>)),
              VariableDeclarator(Untyped(Name_Root, Span(b + 4, b + 6)),
                FunctionExpression(FunctionBody(<<ReturnStatement(
                    ParenthesizedExpression(
                        JSXElement(Tag_Btn, ChildSpan(b, 2), <<>>)))>>)))>>),
        <<>>)

StatementForms ==
    {"ImportBtn", "ImportTypeCard", "ImportMixed", "ImportRuntime", "ImportSide",
     "DeclCard", "ExportFunctionApp", "ExportDefaultCard", "ExportSpecifiers",
     "ExportCall", "DeclBtnRuntime", "ExportTypedCard", "ImportFoobar",
     "ImportOnlyType", "ExportDefaultApp", "DeclCardTwice", "ExportParenItem"}

ImportForms ==
    {"ImportBtn", "ImportTypeCard", "ImportMixed", "ImportRuntime", "ImportSide",
     "ImportFoobar", "ImportOnlyType"}

\* the statement of a form, on the line that starts at byte b
StatementAt(form, b) ==
    CASE form = "ImportBtn" -> ImportBtn(b)
      [] form = "ImportTypeCard" -> ImportTypeCard(b)
      [] form = "ImportMixed" -> ImportMixed(b)
      [] form = "ImportRuntime" -> ImportRuntime(b)
      [] form = "ImportSide" -> ImportSide(b)
      [] form = "DeclCard" -> DeclCard(b)
      [] form = "ExportFunctionApp" -> ExportFunctionApp(b)
      [] form = "ExportDefaultCard" -> ExportDefaultCard(b)
      [] form = "ExportSpecifiers" -> ExportSpecifiers(b)
      [] form = "ExportCall" -> ExportCall(b)
      [] form = "DeclBtnRuntime" -> DeclBtnRuntime(b)
      [] form = "ExportTypedCard" -> ExportTypedCard(b)
      [] form = "ImportFoobar" -> ImportFoobar(b)
      [] form = "ImportOnlyType" -> ImportOnlyType(b)
      [] form = "ExportDefaultApp" -> ExportDefaultApp(b)
      [] form = "DeclCardTwice" -> DeclCardTwice(b)
      [] form = "ExportParenItem" -> ExportParenItem(b)

\* the statement list of the forms, the first on the line that starts at byte b
BodyOf(forms, b) ==
    [i \in DOMAIN forms |-> StatementAt(forms[i], b + (i - 1) * LineWidth)]

Directive(text) == [directive |-> text]
DirectiveLists ==
    {<<>>, <<Directive("use client")>>,
     <<Directive("use strict"), Directive("use client")>>,
     <<Directive("use strict")>>}

\* the text: one line per directive and per statement
RECURSIVE Lines(_)
Lines(n) ==
    IF n = 0 THEN <<>>
    ELSE [i \in 1..LineWidth |-> IF i = LineWidth THEN "\n" ELSE "a"] \o Lines(n - 1)

Program(directives, body) == [directives |-> directives, body |-> body]
ParserReturn(panicked, errors, program) ==
    [panicked |-> panicked, errors |-> errors, program |-> program]
Diagnostic(message) == [message |-> message]

\* What the bytes are: whether they decode, the text they decode to and the
\* ParserReturn the parser makes of the text.
Content(valid_utf8, text, parse) ==
    [valid_utf8 |-> valid_utf8, text |-> text, parse |-> parse]

Diagnostics == {Diagnostic("unexpected token"), Diagnostic("expected a semicolon")}

ErrorLists ==
    {<<>>} \cup {<<d>> : d \in Diagnostics}
           \cup {<<d, e>> : d \in Diagnostics, e \in Diagnostics}

\* The texts that decode and that the parser does not give up on, of at most
\* MaxLines lines, no statement twice, the imports first in a module that
\* has a statement on every line, and at most one statement in a module with
\* a syntax error: the directives, then the statements, then one line for
\* each syntax error the parser recovered from (it reports the diagnostic and
\* still hands over the program).
ParsedContent(directives, forms, errors) ==
    Content(TRUE, Lines(Len(directives) + Len(forms) + Len(errors)),
            ParserReturn(FALSE, errors,
                         Program(directives,
                                 BodyOf(forms, Len(directives) * LineWidth))))

\* texts the parser gives up on: it panics, reports at least one diagnostic
\* and hands over an empty program
PanickedContents ==
    {Content(TRUE, Lines(n), ParserReturn(TRUE, errors, Program(<<>>, <<>>)))
        : n \in 1..MaxLines, errors \in ErrorLists \ {<<>>}}

\* bytes that are not UTF-8
UndecodableContents == {Content(FALSE, Unset, Unset)}

InitContent ==
    \/ \E directives \in DirectiveLists, errors \in ErrorLists, n \in 0..MaxLines :
          /\ Len(directives) + n + Len(errors) <= MaxLines
          /\ errors # <<>> => n <= 1
          /\ \E forms \in [1..n -> StatementForms] :
                /\ \A i, j \in 1..n : forms[i] = forms[j] => i = j
                /\ n = MaxLines =>
                      \A i \in 1..(n - 1) :
                          forms[i + 1] \in ImportForms => forms[i] \in ImportForms
                /\ content = ParsedContent(directives, forms, errors)
    \/ content \in PanickedContents
    \/ content \in UndecodableContents

Extensions == {"tsx", "invalid", ""}

UnitIdle ==
    /\ call = NoCall
    /\ returned = NotReturned

NoLocals == [name \in {} |-> Unset]

\* the module has two statements or more
SeveralStatements ==
    /\ content.valid_utf8
    /\ ~content.parse.panicked
    /\ Len(content.parse.program.body) >= 2

\* A module of two statements or more is given with the extension tsx.
Init ==
    /\ InitContent
    /\ extension \in Extensions
    /\ SeveralStatements => extension = "tsx"
    /\ pc = "start"
    /\ locals = NoLocals
    /\ result = Unset
    /\ UnitIdle

Spec == Init /\ [][Next]_vars

(***************************************************************************)
(* Properties of analyze, checked under Spec                                *)
(***************************************************************************)
Returned == pc = "returned"
ReturnedOk == pc = "returned" /\ result.kind = "Ok"
Elements(seq) == {seq[i] : i \in DOMAIN seq}
\* the local variable of that name is bound
Bound(name) == name \in DOMAIN locals

\* no analysis pass has run: nothing is bound but the text and the parser's
\* return value
NoPassRan == DOMAIN locals \subseteq {"source_text", "ret"}

\* the module has the directive "use client" somewhere in its directive list
HasClientDirective ==
    "use client" \in {d.directive : d \in Elements(locals.ret.program.directives)}

\* C1: in every result analyze returns, each entry of components has
\* is_client_component = TRUE if the module's directive list contains
\* "use client" and FALSE if it does not; so no two entries differ.
C1_ClientFlagUniform ==
    ReturnedOk =>
        \A c \in Elements(result.value.components) :
            c.is_client_component = HasClientDirective

\* C1 witness: a returned result with two components, in a module that has
\* the directive "use client"
C1_Witness ==
    /\ ReturnedOk
    /\ Len(result.value.components) >= 2
    /\ HasClientDirective
    /\ \E s \in Elements(locals.ret.program.body) : s.kind = "ExportNamedDeclaration"

\* the names the import records of the result bind
ResultImportedNames ==
    UNION {Elements(r.identifier) : r \in Elements(result.value.imports)}

\* C2: in every result analyze returns, the component_name of each entry of
\* jsx_usages is an identifier of some import record; a name that is listed
\* in components but that no import record binds is the name of no entry of
\* jsx_usages.
C2_UsagesAreImported ==
    ReturnedOk =>
        /\ \A u \in Elements(result.value.jsx_usages) :
              u.component_name \in ResultImportedNames
        /\ \A c \in Elements(result.value.components) :
              c.name \notin ResultImportedNames =>
                  \A u \in Elements(result.value.jsx_usages) :
                      u.component_name # c.name

\* C2 witness: the collector found a usage of a component the module exports
\* and does not import, next to a usage of an imported name that is kept
C2_Witness ==
    /\ ReturnedOk
    /\ \E c \in Elements(result.value.components) :
          /\ c.name \notin ResultImportedNames
          /\ c.name \in {e.name : e \in Elements(locals.jsx_usages_raw)}
    /\ result.value.jsx_usages # <<>>

ImportStatements ==
    {s \in Elements(locals.ret.program.body) : s.kind = "ImportDeclaration"}
SpecifiersOf(statement) ==
    IF is_some(statement.specifiers) THEN Elements(statement.specifiers.list) ELSE {}
IsTypeOnlySpecifier(spec) == spec.kind = "ImportSpecifier" /\ spec.import_kind = "Type"
\* the names bound type-only, and the names bound at value level
TypeOnlyNames ==
    {spec.local.name : spec \in UNION {
        IF s.import_kind = "Type" THEN SpecifiersOf(s)
        ELSE {x \in SpecifiersOf(s) : IsTypeOnlySpecifier(x)} : s \in ImportStatements}}
ValueNames ==
    {spec.local.name : spec \in UNION {
        IF s.import_kind = "Type" THEN {}
        ELSE {x \in SpecifiersOf(s) : ~IsTypeOnlySpecifier(x)} : s \in ImportStatements}}
\* the import records made of a statement: those with the range of its source
RecordsOf(statement) ==
    LET range == string_literal_to_range(locals.source_text, statement.source.span)
    IN  {r \in Elements(locals.imports) : r.source_span = range}

\* C3: once the imports are collected, no import record comes from a
\* type-only import statement, the record of a value import lists none of
\* its type-only specifiers, and a name bound only type-only is neither a
\* runtime factory identifier nor an imported identifier (the set that
\* filters jsx_usages).
C3_TypeOnlyImportsDropped ==
    Bound("imports") =>
        /\ \A s \in ImportStatements :
              IF s.import_kind = "Type" THEN RecordsOf(s) = {}
              ELSE \A r \in RecordsOf(s) :
                      \A spec \in SpecifiersOf(s) :
                          IsTypeOnlySpecifier(spec) =>
                              spec.local.name \notin Elements(r.identifier)
        /\ \A name \in TypeOnlyNames \ ValueNames :
              /\ name \notin locals.jsx_runtime_identifiers
              /\ Bound("imported_identifiers") =>
                    name \notin locals.imported_identifiers

\* C3 witness: a result for a module with a type-only import statement and a
\* value import from the runtime module that has a type-only specifier
C3_Witness ==
    /\ ReturnedOk
    /\ \E s \in ImportStatements : s.import_kind = "Type"
    /\ \E s \in ImportStatements :
          /\ s.import_kind = "Value"
          /\ s.source.value = "react/jsx-runtime"
          /\ \E spec \in SpecifiersOf(s) : IsTypeOnlySpecifier(spec)
    /\ locals.jsx_runtime_identifiers # {}

\* the value-level local names of the imports from the runtime module
RuntimeValueNames ==
    {spec.local.name : spec \in UNION {
        IF s.import_kind = "Value" /\ s.source.value = "react/jsx-runtime"
        THEN {x \in SpecifiersOf(s) : ~IsTypeOnlySpecifier(x)}
        ELSE {} : s \in ImportStatements}}

\* the declarators of the variable declarations of the module body whose
\* name is uppercase-led and untyped and whose initializer is an arrow with
\* an expression body that is a call of a plain identifier
PlainCallDeclarators ==
    LET body == locals.ret.program.body
        Picked(i) ==
            IF body[i].kind = "VariableDeclaration"
            THEN {j \in DOMAIN body[i].declarations :
                    LET d == body[i].declarations[j]
                    IN  /\ is_uppercase(d.id.kind.name[1])
                        /\ d.id.type_annotation.kind = "None"
                        /\ d.init.kind = "ArrowFunctionExpression"
                        /\ d.init.expression
                        /\ d.init.body.statements[1].expression.kind = "CallExpression"
                        /\ d.init.body.statements[1].expression.callee.kind = "Identifier"}
            ELSE {}
    IN  UNION {{<<i, j>> : j \in Picked(i)} : i \in DOMAIN body}

\* C12: the runtime-factory identifier set is the set of the value-level
\* local names of the import statements with source "react/jsx-runtime"
\* (for `jsx as foobar` it has foobar and not jsx), and after the first pass
\* an untyped uppercase-led variable initialised with an arrow that returns
\* the call of a plain identifier is in the declaration map if and only if
\* that identifier is in the set.
C12_RuntimeFactoryIdentifiers ==
    /\ Bound("jsx_runtime_identifiers") =>
          locals.jsx_runtime_identifiers = RuntimeValueNames
    /\ pc = "classified" =>
          \A p \in PlainCallDeclarators :
              LET d == locals.ret.program.body[p[1]].declarations[p[2]]
              IN  d.id.kind.name \in DOMAIN locals.component_declarations
                    <=> d.init.body.statements[1].expression.callee.name
                            \in RuntimeValueNames

\* C12 witness: after the first pass of a module that imports `jsx as
\* foobar` from the runtime module and declares Btn as an arrow returning
\* foobar(...), Btn is in the declaration map and jsx is no runtime factory
\* identifier
C12_Witness ==
    /\ pc = "classified"
    /\ Name_foobar \in locals.jsx_runtime_identifiers
    /\ Name_jsx \notin locals.jsx_runtime_identifiers
    /\ PlainCallDeclarators # {}
    /\ Name_Btn \in DOMAIN locals.component_declarations

\* C5 as claimed: whenever the parser reports one or more diagnostics,
\* analyze returns an error built from the first and runs no pass.
C5_AnyDiagnosticIsAnError ==
    (Returned /\ Bound("ret") /\ Len(locals.ret.errors) > 0) =>
        /\ result.kind = "Err"
        /\ result.message[2] = locals.ret.errors[1].message
        /\ NoPassRan

\* C5 amended: whenever the parser panicked and reports one or more
\* diagnostics, analyze returns an error built from the first diagnostic and
\* runs no pass; it returns no AnalysisResult for such input.
C5_PanickedParseIsAnError ==
    (Bound("ret") /\ locals.ret.panicked /\ Len(locals.ret.errors) > 0) =>
        /\ Returned
        /\ result.kind = "Err"
        /\ result.message[2] = locals.ret.errors[1].message
        /\ NoPassRan

\* C5 witness: analyze returned after a panicked parse with two different
\* diagnostics
C5_Witness ==
    /\ Returned
    /\ Bound("ret")
    /\ locals.ret.panicked
    /\ Len(locals.ret.errors) = 2
    /\ locals.ret.errors[1] # locals.ret.errors[2]

\* C6: whenever the content decodes and the extension is not one the parser
\* recognises, analyze returns an error that names the extension, without
\* the parser having been invoked and without any pass having run.
C6_UnknownExtensionIsAnError ==
    (Bound("source_text") /\ extension \notin KnownExtensions) =>
        /\ Returned
        /\ result.kind = "Err"
        /\ extension \in Elements(result.message)
        /\ ~Bound("ret")
        /\ NoPassRan

\* C6 witness: analyze returned for an unrecognised, non-empty extension and
\* a text the parser would have read into a program with statements
C6_Witness ==
    /\ Returned
    /\ extension = "invalid"
    /\ content.valid_utf8
    /\ ~content.parse.panicked
    /\ content.parse.program.body # <<>>

\* C8: no entry of the collector's output and no entry of jsx_usages has a
\* name that starts with a lowercase character, also when a lowercase name
\* is imported and used as a tag or as the base of a dotted tag.
C8_NoLowercaseUsage ==
    ReturnedOk =>
        /\ \A e \in Elements(locals.jsx_usages_raw) : ~starts_lowercase(e.name)
        /\ \A u \in Elements(result.value.jsx_usages) :
              ~starts_lowercase(u.component_name)

\* C8 witness: a result for a module that imports the lowercase name ui and
\* uses it both as a tag and as the base of a dotted tag, with other usages
\* collected
C8_Witness ==
    /\ ReturnedOk
    /\ Name_ui \in locals.imported_identifiers
    /\ \E s \in Elements(locals.ret.program.body) :
          /\ s.kind = "VariableDeclaration"
          /\ LET e == s.declarations[1].init.body.statements[1].expression
             IN  /\ e.kind = "JSXElement"
                 /\ \E c \in Elements(e.children) :
                       /\ c.kind = "JSXElement"
                       /\ c.opening_element.name.kind = "Identifier"
                       /\ c.opening_element.name.name = Name_ui
    /\ \E s \in Elements(locals.ret.program.body) :
          /\ s.kind = "ExportNamedDeclaration"
          /\ is_some(s.declaration)
          /\ s.declaration.kind = "FunctionDeclaration"
          /\ LET e == s.declaration.body.statements[1].argument
             IN  \E c \in Elements(e.children) :
                    /\ c.opening_element.name.kind = "MemberExpression"
                    /\ c.opening_element.name.object.name = Name_ui
    /\ locals.jsx_usages_raw # <<>>

(***************************************************************************)
(* Export resolution, described from the statements of the module          *)
(***************************************************************************)
\* the statements of the module analyze was given
Body == locals.ret.program.body

RECURSIVE Concat(_)
Concat(seqs) == IF seqs = <<>> THEN <<>> ELSE Head(seqs) \o Concat(Tail(seqs))

\* the declarator binds an identifier that is classified as a component
IsComponentDeclarator(d) ==
    /\ d.id.kind.kind = "BindingIdentifier"
    /\ is_react_component(d.id.kind.name, d.id, d.init,
                          locals.jsx_runtime_identifiers)

\* the (name, span) of each identifier a declaration declares as a component
DeclaredIn(declaration) ==
    IF declaration.kind = "VariableDeclaration"
    THEN LET ds == SelectSeq(declaration.declarations, IsComponentDeclarator)
         IN  [k \in DOMAIN ds |-> Usage(ds[k].id.kind.name, ds[k].id.kind.span)]
    ELSE IF /\ declaration.kind = "FunctionDeclaration"
            /\ is_some(declaration.id)
            /\ is_react_function_component(declaration.id.name,
                   declaration.return_type, declaration.body,
                   locals.jsx_runtime_identifiers)
    THEN <<Usage(declaration.id.name, declaration.id.span)>>
    ELSE <<>>

\* what a statement that exports its own declaration declares
InlineOf(s) ==
    IF s.kind \in {"ExportNamedDeclaration", "ExportDefaultDeclaration"}
    THEN DeclaredIn(s.declaration)
    ELSE <<>>

\* the declarations the map has seen when the __export calls are processed,
\* and when the i-th statement is processed by the export statement pass
TopLevelInserts == Concat([j \in DOMAIN Body |-> DeclaredIn(Body[j])])
InsertsBefore(i) ==
    TopLevelInserts \o Concat([j \in 1..(i - 1) |-> InlineOf(Body[j])])

KeysOf(inserts) == {inserts[k].name : k \in DOMAIN inserts}

\* the span the map holds for a key: that of its latest declaration
SpanIn(inserts, name) ==
    LET ks == {k \in DOMAIN inserts : inserts[k].name = name}
    IN  inserts[CHOOSE k \in ks : \A m \in ks : m <= k].span

\* one entry for each of the names that is a key, in the order of the names
Resolve(names, inserts) ==
    LET found == SelectSeq(names, LAMBDA n : n \in KeysOf(inserts))
    IN  [k \in DOMAIN found |-> Usage(found[k], SpanIn(inserts, found[k]))]

IsDefaultIdentifierExport(s) ==
    s.kind = "ExportDefaultDeclaration" /\ s.declaration.kind = "Identifier"

IsSpecifierExport(s) ==
    s.kind = "ExportNamedDeclaration" /\ ~is_some(s.declaration)

\* the names a statement that refers to a declaration looks up
LookedUp(s) ==
    IF IsDefaultIdentifierExport(s) THEN <<s.declaration.name>>
    ELSE IF IsSpecifierExport(s)
    THEN [k \in DOMAIN s.specifiers |-> s.specifiers[k].exported.name]
    ELSE <<>>

\* the entries the i-th statement adds in the export statement pass
EntriesOf(i) ==
    InlineOf(Body[i]) \o Resolve(LookedUp(Body[i]), InsertsBefore(i))

\* __export(target, { ... })
IsExportCall(s) ==
    /\ s.kind = "ExpressionStatement"
    /\ s.expression.kind = "CallExpression"
    /\ s.expression.callee.kind = "Identifier"
    /\ s.expression.callee.name = Name_export
    /\ Len(s.expression.arguments) >= 2
    /\ s.expression.arguments[2].kind = "ObjectExpression"

\* the unquoted identifier keys of the object literal of an __export call
IdentifierKeys(s) ==
    IF IsExportCall(s)
    THEN LET ps == SelectSeq(s.expression.arguments[2].properties,
                     LAMBDA q : q.kind = "ObjectProperty"
                                /\ q.key.kind = "StaticIdentifier")
         IN  [k \in DOMAIN ps |-> ps[k].key.name]
    ELSE <<>>

\* the entries of the __export pass
ExportCallEntries ==
    Concat([j \in DOMAIN Body |-> Resolve(IdentifierKeys(Body[j]), TopLevelInserts)])

\* the entries added before the i-th statement is processed by the export
\* statement pass
EntriesBefore(i) ==
    ExportCallEntries \o Concat([j \in 1..(i - 1) |-> EntriesOf(j)])

\* the part of the exported list that the i-th statement added
AddedBy(i) ==
    SubSeq(locals.exported_components,
           Len(EntriesBefore(i)) + 1, Len(EntriesBefore(i + 1)))

ExportsResolved == pc = "exports_done"

\* C14: when the export statement pass has run, each statement
\* `export default <identifier>` has added one entry if the identifier was a
\* key of the declaration map when the statement was processed and none if
\* it was not; the entry has the identifier's name and the span of the
\* identifier of its declaration.
C14_DefaultIdentifierLooksUpMap ==
    ExportsResolved =>
        \A i \in DOMAIN Body :
            IsDefaultIdentifierExport(Body[i]) =>
                /\ Len(EntriesBefore(i + 1)) <= Len(locals.exported_components)
                /\ LET name == Body[i].declaration.name
                       known == InsertsBefore(i)
                   IN  AddedBy(i) =
                          IF name \in KeysOf(known)
                          THEN <<Usage(name, SpanIn(known, name))>>
                          ELSE <<>>

\* C14 witness: `export default Card` after `const Card = ...` added an
\* entry that has the span of the identifier of the declaration
C14_Witness ==
    /\ ExportsResolved
    /\ \E i \in DOMAIN Body : \E j \in 1..(i - 1) :
          /\ IsDefaultIdentifierExport(Body[i])
          /\ Body[j].kind = "VariableDeclaration"
          /\ Body[j].declarations[1].id.kind.name = Body[i].declaration.name
          /\ AddedBy(i) = <<Usage(Body[i].declaration.name,
                                  Body[j].declarations[1].id.kind.span)>>

\* the import statements that are not type-only, in statement order
ValueImports ==
    SelectSeq(Body, LAMBDA s : s.kind = "ImportDeclaration" /\ s.import_kind # "Type")

\* the local names of the specifiers of an import statement that are not
\* type-only, in specifier order
SurvivingNames(s) ==
    IF is_some(s.specifiers)
    THEN LET kept == SelectSeq(s.specifiers.list, LAMBDA x : ~IsTypeOnlySpecifier(x))
         IN  [j \in DOMAIN kept |-> kept[j].local.name]
    ELSE <<>>

\* C15: once the imports are collected, imports has one record for each
\* import statement that is not type-only and no other, in statement order;
\* the record has the statement's module specifier and the local names of the
\* specifiers that are not type-only, in specifier order, which is the empty
\* list when there is no such specifier.
C15_OneRecordPerValueImport ==
    Bound("imports") =>
        /\ Len(locals.imports) = Len(ValueImports)
        /\ \A k \in DOMAIN ValueImports :
              /\ locals.imports[k].source = ValueImports[k].source.value
              /\ locals.imports[k].source_span =
                    string_literal_to_range(locals.source_text,
                                            ValueImports[k].source.span)
              /\ locals.imports[k].identifier = SurvivingNames(ValueImports[k])

\* C15 witness: a result for a module of three import statements, one of
\* them type-only; the record of a value import whose only specifier is
\* type-only has no identifier and the other record has two or more
C15_Witness ==
    /\ ReturnedOk
    /\ Cardinality(ImportStatements) = 3
    /\ Len(result.value.imports) = 2
    /\ \E k \in 1..2 :
          /\ is_some(ValueImports[k].specifiers)
          /\ ValueImports[k].specifiers.list # <<>>
          /\ result.value.imports[k].identifier = <<>>
          /\ Len(result.value.imports[3 - k].identifier) >= 2

Reverse(seq) == [k \in DOMAIN seq |-> seq[Len(seq) + 1 - k]]

\* the exported list the three passes make of a statement list
ExportedOf(body) ==
    LET ids == locals.jsx_runtime_identifiers
        declared == first_pass(body, 1, ids, EmptyMap)
        called == export_call_pass(body, 1, ExportState(<<>>, declared))
    IN  export_pass(body, 1, ids, called).exported

\* how many entries of the list have the name
EntriesNamed(exported, name) ==
    Cardinality({k \in DOMAIN exported : exported[k].name = name})

\* the names the statement looks up in the declaration map
RefersTo(s) ==
    {LookedUp(s)[k] : k \in DOMAIN LookedUp(s)}
        \cup {IdentifierKeys(s)[k] : k \in DOMAIN IdentifierKeys(s)}

\* a statement exports its own declaration of the name and another statement
\* refers to the name
ExportedInlineAndReferredTo(name) ==
    \E i, j \in DOMAIN Body :
        /\ i # j
        /\ name \in KeysOf(InlineOf(Body[i]))
        /\ name \in RefersTo(Body[j])

\* C17: the exported list does not depend on the order of the statements:
\* when a statement exports its own declaration of X and another statement
\* refers to X (export { X }, export default X, or the key X of an __export
\* call), the list has as many entries named X as the list of the module with
\* the statements in the opposite order.
C17_ExportsIndependentOfOrder ==
    ExportsResolved =>
        \A name \in KeysOf(locals.exported_components) :
            ExportedInlineAndReferredTo(name) =>
                EntriesNamed(locals.exported_components, name) =
                    EntriesNamed(ExportedOf(Reverse(Body)), name)

\* the keys of the object literal of an __export call, quoted or not
PropertyKeys(s) ==
    IF IsExportCall(s)
    THEN LET ps == SelectSeq(s.expression.arguments[2].properties,
                     LAMBDA q : q.kind = "ObjectProperty"
                                /\ q.key.kind \in {"StaticIdentifier", "StringLiteral"})
         IN  [k \in DOMAIN ps |-> IF ps[k].key.kind = "StaticIdentifier"
                                  THEN ps[k].key.name ELSE ps[k].key.value]
    ELSE <<>>

\* the list starts with these entries
StartsWith(exported, entries) ==
    /\ Len(entries) <= Len(exported)
    /\ SubSeq(exported, 1, Len(entries)) = entries

\* C18 as claimed: the __export pass adds one entry for every property key
\* of the object literal that names a component of the declaration map,
\* wherever the call stands, and none for another key; the entries of the
\* pass come before those of the export statements.
C18_EveryKeyOfExportCall ==
    LET entries ==
            Concat([j \in DOMAIN Body |-> Resolve(PropertyKeys(Body[j]), TopLevelInserts)])
    IN  /\ pc = "export_calls_done" => locals.exported_components = entries
        /\ ExportsResolved => StartsWith(locals.exported_components, entries)

\* C18 amended: the __export pass adds one entry for every unquoted
\* identifier key of the object literal that names a component of the
\* declaration map as the first pass left it, wherever the call stands,
\* and none for another key; the entries of the pass come before those of the
\* export statements.
C18_IdentifierKeysOfExportCall ==
    /\ pc = "export_calls_done" => locals.exported_components = ExportCallEntries
    /\ ExportsResolved => StartsWith(locals.exported_components, ExportCallEntries)

\* C18 witness: an __export call that stands before the declaration of Card
\* added an entry for the key Card, none for the key app, and an export
\* statement added an entry after it
C18_Witness ==
    /\ ExportsResolved
    /\ \E i, j \in DOMAIN Body :
          /\ i < j
          /\ IsExportCall(Body[i])
          /\ Body[j].kind = "VariableDeclaration"
          /\ Body[j].declarations[1].id.kind.name = Name_Card
          /\ Name_app \in KeysOf([k \in DOMAIN IdentifierKeys(Body[i]) |->
                                    [name |-> IdentifierKeys(Body[i])[k]]])
    /\ ExportCallEntries # <<>>
    /\ Name_app \notin KeysOf(locals.exported_components)
    /\ locals.exported_components[1].name = Name_Card
    /\ Len(locals.exported_components) > Len(ExportCallEntries)

\* C19: when the export statement pass has run, each export statement that
\* has specifiers and no declaration has added, in specifier order, one entry
\* for each specifier whose exported name (the alias, if it has one) was a
\* key of the declaration map when the statement was processed, and none for
\* another specifier; the entry has the exported name and the span the map
\* holds for it.
C19_SpecifierLooksUpExportedName ==
    ExportsResolved =>
        \A i \in DOMAIN Body :
            IsSpecifierExport(Body[i]) =>
                /\ Len(EntriesBefore(i + 1)) <= Len(locals.exported_components)
                /\ LET known == InsertsBefore(i)
                       exported ==
                           SelectSeq(Body[i].specifiers,
                                     LAMBDA x : x.exported.name \in KeysOf(known))
                   IN  AddedBy(i) =
                          [k \in DOMAIN exported |->
                              Usage(exported[k].exported.name,
                                    SpanIn(known, exported[k].exported.name))]

\* C19 witness: `export { App, Card as Btn }` added the entry Btn, Btn
\* being declared as a component and Card not
C19_Witness ==
    /\ ExportsResolved
    /\ \E i \in DOMAIN Body :
          /\ IsSpecifierExport(Body[i])
          /\ \E x \in Elements(Body[i].specifiers) :
                /\ x.local.name = Name_Card
                /\ x.exported.name = Name_Btn
          /\ Name_Card \notin KeysOf(InsertsBefore(i))
          /\ Len(AddedBy(i)) = 1
          /\ AddedBy(i)[1].name = Name_Btn

\* every resolution of an export form of the module, successful ones only
Resolutions == EntriesBefore(Len(Body) + 1)

\* C20: export resolution does not deduplicate: the exported list has, for
\* every name, as many entries as export forms resolved to that name, and the
\* components of the result are as many as the successful resolutions of all
\* export forms together.
C20_OneEntryPerResolution ==
    /\ ExportsResolved =>
          /\ Len(locals.exported_components) = Len(Resolutions)
          /\ \A name \in KeysOf(Resolutions) :
                EntriesNamed(locals.exported_components, name) =
                    EntriesNamed(Resolutions, name)
    /\ ReturnedOk =>
          /\ Len(result.value.components) = Len(Resolutions)
          /\ \A name \in KeysOf(Resolutions) :
                EntriesNamed(result.value.components, name) =
                    EntriesNamed(Resolutions, name)

\* C20 witness: a result with two components named Card, one of a statement
\* that exports its declaration and one of `export default Card`
C20_Witness ==
    /\ ReturnedOk
    /\ EntriesNamed(result.value.components, Name_Card) = 2
    /\ \E i, j \in DOMAIN Body :
          /\ Name_Card \in KeysOf(InlineOf(Body[i]))
          /\ IsDefaultIdentifierExport(Body[j])
          /\ Name_Card \in KeysOf(InsertsBefore(j))

(***************************************************************************)
(* SpecRange: range.rs applied to every bounded source text and span       *)
(***************************************************************************)
RECURSIVE SourcesOfLen(_)
SourcesOfLen(n) ==
    IF n = 0 THEN {<<>>}
    ELSE {Append(s, c) : s \in SourcesOfLen(n - 1), c \in Chars}

Sources == UNION {SourcesOfLen(n) : n \in 0..MaxSourceLen}

\* offsets worth trying on a text: every byte offset up to two past its end,
\* and the largest u32
OffsetsFor(source) == 0..(byte_len(source) + 2) \cup {U32Max}

CallOffsetToPosition ==
    /\ call.fn = "offset_to_position"
    /\ returned = NotReturned
    /\ returned' = offset_to_position(call.source, call.offset)
    /\ UNCHANGED <<call, analyze_vars>>

CallSpanToRange ==
    /\ call.fn = "span_to_range"
    /\ returned = NotReturned
    /\ returned' = span_to_range(call.source, call.span)
    /\ UNCHANGED <<call, analyze_vars>>

CallStringLiteralToRange ==
    /\ call.fn = "string_literal_to_range"
    /\ returned = NotReturned
    /\ returned' \in string_literal_to_range_outcomes(call.source, call.span)
    /\ UNCHANGED <<call, analyze_vars>>

\* analyze is not running
AnalyzeIdle ==
    /\ content = Unset
    /\ extension = ""
    /\ pc = "idle"
    /\ locals = NoLocals
    /\ result = Unset

\* a span never ends before it starts
InitRange ==
    /\ \E s \in Sources : \E a \in OffsetsFor(s) :
          \/ \E b \in {o \in OffsetsFor(s) : a <= o} :
                \/ call = [fn |-> "string_literal_to_range", source |-> s,
                           span |-> Span(a, b)]
                \/ call = [fn |-> "span_to_range", source |-> s,
                           span |-> Span(a, b)]
          \/ call = [fn |-> "offset_to_position", source |-> s, offset |-> a]
    /\ returned = NotReturned
    /\ AnalyzeIdle

NextRange ==
    \/ CallOffsetToPosition
    \/ CallSpanToRange
    \/ CallStringLiteralToRange

SpecRange == InitRange /\ [][NextRange]_vars

\* a character of the text starts at this byte offset
char_starts(source, offset) ==
    \E k \in 1..Len(source) : byte_len(SubSeq(source, 1, k - 1)) = offset

StringLiteralCallReturned ==
    call.fn = "string_literal_to_range" /\ returned # NotReturned

\* C9 as claimed: for every source text and every span,
\* string_literal_to_range returns a range whose start is strictly greater
\* than offset_to_position(span.start) and whose end is strictly less than
\* offset_to_position(span.end).
C9_StrictlyInsideForEverySpan ==
    StringLiteralCallReturned =>
        /\ returned # Panic
        /\ PosLess(offset_to_position(call.source, call.span.start), returned.start)
        /\ PosLess(returned.end, offset_to_position(call.source, call.span.end))

\* C9 amended: for every source text and every span such that a character
\* of the text starts at byte span.start and a character of the text starts
\* at byte span.end - 1, string_literal_to_range returns a range whose start
\* is strictly greater than offset_to_position(span.start) and whose end is
\* strictly less than offset_to_position(span.end).
C9_StrictlyInsideQuotedSpan ==
    (/\ StringLiteralCallReturned
     /\ char_starts(call.source, call.span.start)
     /\ call.span.end > 0
     /\ char_starts(call.source, call.span.end - 1)) =>
        /\ returned # Panic
        /\ PosLess(offset_to_position(call.source, call.span.start), returned.start)
        /\ PosLess(returned.end, offset_to_position(call.source, call.span.end))

\* C9 witness: the call returned for a span from the first character to the
\* end of a text that has a line break and a multi-byte character
C9_Witness ==
    /\ StringLiteralCallReturned
    /\ call.span.start = 0
    /\ call.span.end = byte_len(call.source)
    /\ char_starts(call.source, call.span.end - 1)
    /\ "\n" \in Elements(call.source)
    /\ "e4" \in Elements(call.source)
    /\ returned.start.line # returned.end.line

\* the byte offset at which the k-th character of the text starts
StartOf(source, k) == byte_len(SubSeq(source, 1, k - 1))

\* the characters of the text that start below the offset, and the line
\* breaks among them
StartingBelow(source, offset) ==
    {k \in 1..Len(source) : StartOf(source, k) < offset}
NewlinesBelow(source, offset) ==
    {k \in StartingBelow(source, offset) : source[k] = "\n"}

\* the position by counting
CountedPosition(source, offset) ==
    Position(Cardinality(NewlinesBelow(source, offset)),
             Cardinality({k \in StartingBelow(source, offset) :
                             \A m \in NewlinesBelow(source, offset) : m < k}))

PosLessEq(p, q) == p = q \/ PosLess(p, q)

OffsetCallReturned ==
    call.fn = "offset_to_position" /\ returned # NotReturned

\* C16: offset_to_position returns as line the number of line breaks that
\* start below the offset and as character the number of characters that
\* start below the offset and after the last such line break; the position of
\* a smaller offset is never greater; an offset at or past the end of the
\* text gives the position of the end of the text.
C16_PositionCountsCharacters ==
    OffsetCallReturned =>
        /\ returned = CountedPosition(call.source, call.offset)
        /\ \A smaller \in OffsetsFor(call.source) :
              smaller <= call.offset =>
                  PosLessEq(offset_to_position(call.source, smaller), returned)
        /\ call.offset >= byte_len(call.source) =>
              returned = CountedPosition(call.source, byte_len(call.source))

\* C16 witness: the call returned for an offset inside a text, after a line
\* break and a multi-byte character that follows it
C16_Witness ==
    /\ OffsetCallReturned
    /\ call.offset < byte_len(call.source)
    /\ \E k \in StartingBelow(call.source, call.offset) :
          /\ len_utf8(call.source[k]) > 1
          /\ \E m \in NewlinesBelow(call.source, call.offset) : m < k
    /\ returned.line = 1
    /\ returned.character >= 1

(***************************************************************************)
(* SpecComponent: component.rs applied to bounded declarations              *)
(***************************************************************************)
\* the value a call returned
Value(v) == [kind |-> "Returned", value |-> v]

ComponentNames == {Name_empty, Name_app, Name_under, Name_App}

AnnotationForms ==
    {"none", "FC", "FunctionComponent", "VFC", "ReactElement", "ReactNode",
     "Component", "Props", "React.FC", "string", "FC[]"}
\* Option<Box<TSTypeAnnotation>> of a binding or of a function
AnnotationAt(form) ==
    CASE form = "none" -> None
      [] form = "FC" ->
            TSTypeAnnotation(TSTypeReference(TSIdentifierReference(Name_FC)))
      [] form = "FunctionComponent" ->
            TSTypeAnnotation(TSTypeReference(TSIdentifierReference(Name_FunctionComponent)))
      [] form = "VFC" ->
            TSTypeAnnotation(TSTypeReference(TSIdentifierReference(Name_VFC)))
      [] form = "ReactElement" ->
            TSTypeAnnotation(TSTypeReference(TSIdentifierReference(Name_ReactElement)))
      [] form = "ReactNode" ->
            TSTypeAnnotation(TSTypeReference(TSIdentifierReference(Name_ReactNode)))
      [] form = "Component" ->
            TSTypeAnnotation(TSTypeReference(TSIdentifierReference(Name_Component)))
      [] form = "Props" ->
            TSTypeAnnotation(TSTypeReference(TSIdentifierReference(Name_Props)))
      [] form = "React.FC" ->
            TSTypeAnnotation(TSTypeReference(
                TSQualifiedName(TSIdentifierReference(Name_React), Name_FC)))
      [] form = "string" -> TSTypeAnnotation(TSStringKeyword)
      [] form = "FC[]" ->
            TSTypeAnnotation(TSArrayType(
                TSTypeReference(TSIdentifierReference(Name_FC))))

IdentifierSets == {{}, {Name_foobar}, {Name_jsx, Name_jsxs}, {Name_memo}}

Markup == JSXElement(JSXIdentifier(Name_div), Span(0, 7), <<>>)
FactoryArguments == <<StringLiteral(Name_div), ObjectExpression(<<>>)>>
\* (0, rt.jsx): the callee a bundler writes
BundledCallee(last_expr) ==
    ParenthesizedExpression(SequenceExpression(<<NumericLiteral, last_expr>>))

StatementListForms ==
    {"empty", "return_none", "return_element", "return_fragment", "return_null",
     "return_foobar", "return_jsx", "return_bundled", "expression_element",
     "if_return_element", "call_then_return", "return_paren_element"}
\* the statements of a function body
StatementListAt(form) ==
    CASE form = "empty" -> <<>>
      [] form = "return_none" -> <<ReturnStatement(None)>>
      [] form = "return_element" -> <<ReturnStatement(Markup)>>
      [] form = "return_fragment" -> <<ReturnStatement(JSXFragment(<<>>))>>
      [] form = "return_null" -> <<ReturnStatement(NullLiteral)>>
      [] form = "return_foobar" ->
            <<ReturnStatement(CallExpression(Identifier(Name_foobar), FactoryArguments))>>
      [] form = "return_jsx" ->
            <<ReturnStatement(CallExpression(Identifier(Name_jsx), FactoryArguments))>>
      [] form = "return_bundled" ->
            <<ReturnStatement(CallExpression(
                BundledCallee(StaticMemberExpression(Identifier(Name_rt), Name_jsx)),
                FactoryArguments))>>
      [] form = "expression_element" -> <<ExpressionStatement(Markup)>>
      [] form = "if_return_element" ->
            <<IfStatement(ReturnStatement(Markup), None)>>
      [] form = "call_then_return" ->
            <<ExpressionStatement(CallExpression(Identifier(Name_helper), <<>>)),
              ReturnStatement(Markup)>>
      [] form = "return_paren_element" ->
            <<ReturnStatement(ParenthesizedExpression(Markup))>>

BodyForms == {"none"} \cup StatementListForms
\* Option<Box<FunctionBody>>
BodyAt(form) ==
    IF form = "none" THEN None ELSE FunctionBody(StatementListAt(form))

InitializerForms ==
    {"none", "element", "fragment", "number", "paren_element",
     "conditional_element", "call_foobar", "call_jsx", "call_helper",
     "call_bundled_static_jsx", "call_bundled_static_render",
     "call_bundled_computed_string", "call_bundled_computed_identifier",
     "call_bundled_identifier", "call_sequence_static_jsx", "call_member_jsx",
     "arrow_element", "arrow_number", "arrow_foobar", "arrow_return_element",
     "arrow_return_none", "arrow_if_return_element", "arrow_empty",
     "function_return_fragment", "function_return_null",
     "arrow_bundled_computed_string", "function_return_bundled_identifier"}
\* Option<Expression>: the initializer of a declarator
InitializerAt(form) ==
    CASE form = "none" -> None
      [] form = "element" -> Markup
      [] form = "fragment" -> JSXFragment(<<>>)
      [] form = "number" -> NumericLiteral
      [] form = "paren_element" -> ParenthesizedExpression(Markup)
      [] form = "conditional_element" -> ConditionalExpression(Markup, NullLiteral)
      [] form = "call_foobar" ->
            CallExpression(Identifier(Name_foobar), FactoryArguments)
      [] form = "call_jsx" -> CallExpression(Identifier(Name_jsx), FactoryArguments)
      [] form = "call_helper" -> CallExpression(Identifier(Name_helper), <<>>)
      [] form = "call_bundled_static_jsx" ->
            CallExpression(
                BundledCallee(StaticMemberExpression(Identifier(Name_rt), Name_jsx)),
                FactoryArguments)
      [] form = "call_bundled_static_render" ->
            CallExpression(
                BundledCallee(StaticMemberExpression(Identifier(Name_rt), Name_render)),
                FactoryArguments)
      [] form = "call_bundled_computed_string" ->
            CallExpression(
                BundledCallee(ComputedMemberExpression(Identifier(Name_rt),
                                                       StringLiteral(Name_jsxs))),
                FactoryArguments)
      [] form = "call_bundled_computed_identifier" ->
            CallExpression(
                BundledCallee(ComputedMemberExpression(Identifier(Name_rt),
                                                       Identifier(Name_jsx))),
                FactoryArguments)
      [] form = "call_bundled_identifier" ->
            CallExpression(BundledCallee(Identifier(Name_foobar)), FactoryArguments)
      [] form = "call_sequence_static_jsx" ->
            CallExpression(
                SequenceExpression(<<NumericLiteral,
                    StaticMemberExpression(Identifier(Name_rt), Name_jsx)>>),
                FactoryArguments)
      [] form = "call_member_jsx" ->
            CallExpression(StaticMemberExpression(Identifier(Name_rt), Name_jsx),
                           FactoryArguments)
      [] form = "arrow_element" ->
            ArrowFunctionExpression(TRUE, <<ExpressionStatement(Markup)>>)
      [] form = "arrow_number" ->
            ArrowFunctionExpression(TRUE, <<ExpressionStatement(NumericLiteral)>>)
      [] form = "arrow_foobar" ->
            ArrowFunctionExpression(TRUE, <<ExpressionStatement(
                CallExpression(Identifier(Name_foobar), FactoryArguments))>>)
      [] form = "arrow_return_element" ->
            ArrowFunctionExpression(FALSE, StatementListAt("return_element"))
      [] form = "arrow_return_none" ->
            ArrowFunctionExpression(FALSE, StatementListAt("return_none"))
      [] form = "arrow_if_return_element" ->
            ArrowFunctionExpression(FALSE, StatementListAt("if_return_element"))
      [] form = "arrow_empty" -> ArrowFunctionExpression(FALSE, <<>>)
      [] form = "function_return_fragment" ->
            FunctionExpression(BodyAt("return_fragment"))
      [] form = "function_return_null" -> FunctionExpression(BodyAt("return_null"))
      [] form = "arrow_bundled_computed_string" ->
            ArrowFunctionExpression(TRUE, <<ExpressionStatement(
                CallExpression(
                    BundledCallee(ComputedMemberExpression(Identifier(Name_rt),
                                                           StringLiteral(Name_jsxs))),
                    FactoryArguments))>>)
      [] form = "function_return_bundled_identifier" ->
            FunctionExpression(FunctionBody(<<ReturnStatement(
                CallExpression(BundledCallee(Identifier(Name_foobar)),
                               FactoryArguments))>>))

\* the wrapping calls: React.memo(x), React.forwardRef(x), React.lazy(x),
\* UI.memo(x), memo(x), memo(...x)
WrapForms ==
    {"React.memo", "React.forwardRef", "React.lazy", "UI.memo", "memo", "memo_spread"}
WrapAt(form, inner) ==
    CASE form = "React.memo" ->
            CallExpression(StaticMemberExpression(Identifier(Name_React), Name_memo),
                           <<inner>>)
      [] form = "React.forwardRef" ->
            CallExpression(
                StaticMemberExpression(Identifier(Name_React), Name_forwardRef),
                <<inner>>)
      [] form = "React.lazy" ->
            CallExpression(StaticMemberExpression(Identifier(Name_React), Name_lazy),
                           <<inner>>)
      [] form = "UI.memo" ->
            CallExpression(StaticMemberExpression(Identifier(Name_UI), Name_memo),
                           <<inner>>)
      [] form = "memo" -> CallExpression(Identifier(Name_memo), <<inner>>)
      [] form = "memo_spread" ->
            CallExpression(Identifier(Name_memo), <<SpreadElement(inner)>>)

\* the innermost wrap is the last of `wraps`
RECURSIVE Wrapped(_, _)
Wrapped(wraps, inner) ==
    IF wraps = <<>> THEN inner
    ELSE WrapAt(Head(wraps), Wrapped(Tail(wraps), inner))

\* how many wrapping calls an initializer has at most
MaxHocDepth == 2

\* the wrapping calls tried below the outermost one
InnerWrapForms == {"React.memo", "UI.memo", "memo"}

WrapLists ==
    {wraps \in UNION {[1..d -> WrapForms] : d \in 0..MaxHocDepth} :
        \A i \in 2..Len(wraps) : wraps[i] \in InnerWrapForms}

CallIsReactComponent ==
    /\ call.fn = "is_react_component"
    /\ returned = NotReturned
    /\ returned' = Value(is_react_component(call.name, call.binding, call.init,
                                            call.jsx_runtime_identifiers))
    /\ UNCHANGED <<call, analyze_vars>>

CallIsReactFunctionComponent ==
    /\ call.fn = "is_react_function_component"
    /\ returned = NotReturned
    /\ returned' = Value(is_react_function_component(call.name, call.return_type,
                            call.body, call.jsx_runtime_identifiers))
    /\ UNCHANGED <<call, analyze_vars>>

\* A wrapped initializer is tried with two of the names and three of the
\* annotations.
InitComponent ==
    /\ \E name \in ComponentNames, annotation \in AnnotationForms,
          identifiers \in IdentifierSets :
          \/ \E form \in InitializerForms, wraps \in WrapLists :
                /\ form = "none" => wraps = <<>>
                /\ wraps # <<>> =>
                      /\ name \in {Name_app, Name_App}
                      /\ annotation \in {"none", "FC", "Props"}
                /\ call = [fn |-> "is_react_component",
                           name |-> name,
                           binding |-> BindingPattern(
                               BindingIdentifier(name, Span(0, Len(name))),
                               AnnotationAt(annotation)),
                           init |-> Wrapped(wraps, InitializerAt(form)),
                           jsx_runtime_identifiers |-> identifiers]
          \/ \E form \in BodyForms :
                call = [fn |-> "is_react_function_component",
                        name |-> name,
                        return_type |-> AnnotationAt(annotation),
                        body |-> BodyAt(form),
                        jsx_runtime_identifiers |-> identifiers]
    /\ returned = NotReturned
    /\ AnalyzeIdle

NextComponent ==
    \/ CallIsReactComponent
    \/ CallIsReactFunctionComponent

SpecComponent == InitComponent /\ [][NextComponent]_vars

\* the name starts with an uppercase character
StartsWithUppercase(name) == Len(name) > 0 /\ name[1] \in UppercaseChars

ComponentCallReturned ==
    /\ call.fn \in {"is_react_component", "is_react_function_component"}
    /\ returned # NotReturned

\* C4: is_react_component and is_react_function_component return false for
\* every name that does not start with an uppercase character, the empty
\* name included, whatever the type annotation, the return type, the
\* initializer, the body and the runtime-factory identifier set are.
C4_PascalCaseGate ==
    (ComponentCallReturned /\ ~StartsWithUppercase(call.name)) =>
        returned.value = FALSE

\* C4 witness: is_react_component returned for the empty name with a
\* recognised type annotation and an initializer that is markup
C4_Witness ==
    /\ call.fn = "is_react_component"
    /\ returned # NotReturned
    /\ call.name = Name_empty
    /\ has_react_type(call.binding)
    /\ is_some(call.init)
    /\ call.init.kind = "JSXElement"

\* the type names the classification recognises
RecognisedTypeNames ==
    {<<"F", "C">>,
     <<"F", "u", "n", "c", "t", "i", "o", "n", "C", "o", "m", "p", "o", "n", "e", "n", "t">>,
     <<"V", "F", "C">>,
     <<"R", "e", "a", "c", "t", "E", "l", "e", "m", "e", "n", "t">>,
     <<"R", "e", "a", "c", "t", "N", "o", "d", "e">>,
     <<"C", "o", "m", "p", "o", "n", "e", "n", "t">>}

\* the annotation is a reference to one of the recognised type names
NamesRecognisedType(annotation) ==
    /\ is_some(annotation)
    /\ annotation.type_annotation.kind = "TSTypeReference"
    /\ annotation.type_annotation.type_name.kind = "IdentifierReference"
    /\ annotation.type_annotation.type_name.name \in RecognisedTypeNames

\* the annotation of the declaration of the call: of the binding of a
\* variable, the return type of a function
CallAnnotation ==
    IF call.fn = "is_react_component" THEN call.binding.type_annotation
    ELSE call.return_type

\* C10: a variable or a function whose name starts with an uppercase
\* character and whose type annotation, or return type, is a reference to FC,
\* FunctionComponent, VFC, ReactElement, ReactNode or Component is classified
\* as a component, whatever its initializer or body is.
C10_RecognisedTypeIsComponent ==
    (/\ ComponentCallReturned
     /\ StartsWithUppercase(call.name)
     /\ NamesRecognisedType(CallAnnotation)) =>
        returned.value = TRUE

\* C10 witness: is_react_function_component returned for a function App
\* with return type ReactNode and a body that returns null
C10_Witness ==
    /\ call.fn = "is_react_function_component"
    /\ returned # NotReturned
    /\ call.name = Name_App
    /\ NamesRecognisedType(call.return_type)
    /\ call.return_type.type_annotation.type_name.name = Name_ReactNode
    /\ is_some(call.body)
    /\ ~has_jsx_return(call.body.statements, call.jsx_runtime_identifiers)

\* the expression is a markup element or fragment
IsMarkup(expr) == expr.kind \in {"JSXElement", "JSXFragment"}

\* a statement of the list is a return statement whose argument is markup
ReturnsMarkup(statements) ==
    \E i \in DOMAIN statements :
        /\ statements[i].kind = "ReturnStatement"
        /\ statements[i].argument.kind \in {"JSXElement", "JSXFragment"}

\* the initializer is a function or arrow with a block body that has a
\* return of markup, or an arrow whose expression body is markup
FunctionYieldsMarkup(init) ==
    \/ /\ init.kind = "ArrowFunctionExpression"
       /\ ~init.expression
       /\ ReturnsMarkup(init.body.statements)
    \/ /\ init.kind = "ArrowFunctionExpression"
       /\ init.expression
       /\ init.body.statements[1].expression.kind \in {"JSXElement", "JSXFragment"}
    \/ /\ init.kind = "FunctionExpression"
       /\ init.body.kind # "None"
       /\ ReturnsMarkup(init.body.statements)

\* the expression is no call, or a call of a plain identifier that is
\* neither a runtime factory identifier nor forwardRef or memo
NoFactoryOrWrapperCall(expr, identifiers) ==
    expr.kind = "CallExpression" =>
        /\ expr.callee.kind = "Identifier"
        /\ expr.callee.name \notin identifiers \cup {Name_forwardRef, Name_memo}

\* none of the statements returns markup or a factory or wrapper call
ReturnsNothingOfInterest(statements, identifiers) ==
    \A i \in DOMAIN statements :
        (statements[i].kind = "ReturnStatement"
            /\ statements[i].argument.kind # "None") =>
                /\ ~IsMarkup(statements[i].argument)
                /\ NoFactoryOrWrapperCall(statements[i].argument, identifiers)

\* the initializer holds no markup literal and no runtime-factory or
\* higher-order-component call where the classification looks
InitializerOfNoInterest(init, identifiers) ==
    \/ init.kind = "None"
    \/ /\ init.kind \notin {"None", "ArrowFunctionExpression", "FunctionExpression"}
       /\ ~IsMarkup(init)
       /\ NoFactoryOrWrapperCall(init, identifiers)
    \/ /\ init.kind = "ArrowFunctionExpression"
       /\ init.expression
       /\ \A i \in DOMAIN init.body.statements :
             /\ ~IsMarkup(init.body.statements[i].expression)
             /\ NoFactoryOrWrapperCall(init.body.statements[i].expression, identifiers)
    \/ /\ init.kind = "ArrowFunctionExpression"
       /\ ~init.expression
       /\ ReturnsNothingOfInterest(init.body.statements, identifiers)
    \/ /\ init.kind = "FunctionExpression"
       /\ \/ init.body.kind = "None"
          \/ ReturnsNothingOfInterest(init.body.statements, identifiers)

IsMemberWrapperCall(expr) ==
    /\ expr.kind = "CallExpression"
    /\ expr.callee.kind = "StaticMemberExpression"
    /\ expr.callee.property.name \in {Name_forwardRef, Name_memo}

\* the call is forwardRef(..) or memo(..)
IsDirectWrapperCall(expr) ==
    /\ expr.kind = "CallExpression"
    /\ expr.callee.kind = "Identifier"
    /\ expr.callee.name \in {Name_forwardRef, Name_memo}

\* the first argument of the call satisfies the checks, applied recursively
FirstArgumentQualifies(expr, identifiers) ==
    /\ Len(expr.arguments) > 0
    /\ expr.arguments[1].kind # "SpreadElement"
    /\ contains_jsx(expr.arguments[1], identifiers)

\* is_react_component was applied to an uppercase-led name without a
\* recognised type annotation
UntypedVariableCallReturned ==
    /\ call.fn = "is_react_component"
    /\ returned # NotReturned
    /\ StartsWithUppercase(call.name)
    /\ ~NamesRecognisedType(call.binding.type_annotation)

\* C13 as claimed: an uppercase-led variable initialised with X.forwardRef(fn)
\* or X.memo(fn) for any object X, or with forwardRef(fn) or memo(fn), is
\* classified as a component exactly when fn satisfies the markup-literal or
\* runtime-factory checks, applied recursively; a wrapper call with no
\* argument is rejected.
C13_WrapperOnAnyObject ==
    (/\ UntypedVariableCallReturned
     /\ IsMemberWrapperCall(call.init) \/ IsDirectWrapperCall(call.init)) =>
        returned.value =
            FirstArgumentQualifies(call.init, call.jsx_runtime_identifiers)

\* C13 amended: an uppercase-led variable initialised with React.forwardRef(fn)
\* or React.memo(fn), or with forwardRef(fn) or memo(fn) where that name is
\* no runtime factory identifier, is classified as a component exactly when
\* fn satisfies the markup-literal or runtime-factory checks, applied
\* recursively; a wrapper call with no argument is rejected, and so is
\* X.forwardRef(fn) or X.memo(fn) on any object X other than the identifier
\* React.
C13_WrapperOnReact ==
    UntypedVariableCallReturned =>
        /\ (\/ /\ IsMemberWrapperCall(call.init)
               /\ call.init.callee.object.kind = "Identifier"
               /\ call.init.callee.object.name = Name_React
            \/ /\ IsDirectWrapperCall(call.init)
               /\ call.init.callee.name \notin call.jsx_runtime_identifiers) =>
              returned.value =
                  FirstArgumentQualifies(call.init, call.jsx_runtime_identifiers)
        /\ (/\ IsMemberWrapperCall(call.init)
            /\ ~(/\ call.init.callee.object.kind = "Identifier"
                 /\ call.init.callee.object.name = Name_React)) =>
              returned.value = FALSE

\* C13 witness: is_react_component returned true for React.forwardRef
\* applied to memo applied to a function that returns markup
C13_Witness ==
    /\ UntypedVariableCallReturned
    /\ IsMemberWrapperCall(call.init)
    /\ call.init.callee.object.name = Name_React
    /\ call.init.callee.property.name = Name_forwardRef
    /\ IsDirectWrapperCall(call.init.arguments[1])
    /\ call.init.arguments[1].arguments[1].kind # "SpreadElement"
    /\ FunctionYieldsMarkup(call.init.arguments[1].arguments[1])
    /\ returned.value = TRUE

(***************************************************************************)
(* SpecJsx: jsx.rs applied to bounded markup trees                          *)
(***************************************************************************)
\* how deep the elements of a tree nest at most
MaxJsxDepth == 3

TagForms ==
    {"div", "Btn", "UI.Root", "UI.Item", "ui.Root", "UI.Root.Item", "ui:div",
     "this.Root"}
\* JSXElementName: the parser gives a lowercase tag as Identifier and every
\* other plain tag as IdentifierReference
TagAt(form) ==
    CASE form = "div" -> JSXIdentifier(Name_div)
      [] form = "Btn" -> JSXIdentifierReference(Name_Btn)
      [] form = "UI.Root" ->
            JSXMemberExpression(JSXIdentifierReference(Name_UI), Name_Root)
      [] form = "UI.Item" ->
            JSXMemberExpression(JSXIdentifierReference(Name_UI), Name_Item)
      [] form = "ui.Root" ->
            JSXMemberExpression(JSXIdentifierReference(Name_ui), Name_Root)
      [] form = "UI.Root.Item" ->
            JSXMemberExpression(
                JSXMemberExpression(JSXIdentifierReference(Name_UI), Name_Root),
                Name_Item)
      [] form = "ui:div" -> JSXNamespacedName(Name_ui, Name_div)
      [] form = "this.Root" -> JSXMemberExpression(JSXThis, Name_Root)

\* how an element holds the element nested in it: as a child next to text,
\* inside a fragment child, inside an expression-container child
ChildForms == {"element", "fragment", "container"}
ChildrenAt(form, child) ==
    CASE form = "element" -> <<JSXText, child>>
      [] form = "fragment" -> <<JSXFragment(<<child>>)>>
      [] form = "container" -> <<JSXExpressionContainer(child)>>

\* the element at depth `depth` of the chain of tags: its span encloses the
\* spans of the elements nested in it
RECURSIVE TreeAt(_, _, _)
TreeAt(tags, child_form, depth) ==
    JSXElement(TagAt(tags[depth]), Span(depth, 2 * Len(tags) + 1 - depth),
               IF depth = Len(tags) THEN <<>>
               ELSE ChildrenAt(child_form, TreeAt(tags, child_form, depth + 1)))

TagLists == UNION {[1..d -> TagForms] : d \in 1..MaxJsxDepth}

HolderForms ==
    {"expression", "paren", "fragment", "nested_fragment", "argument", "variable_arrow",
     "variable_function", "export_variable", "export_function",
     "export_default_arrow", "export_default_function", "block_if",
     "function_declaration", "wrapper_argument", "conditional", "logical",
     "attribute", "for_loop", "while_loop", "try_block", "switch_case", "if_else"}
\* the statements that hold a tree
HolderAt(form, tree) ==
    CASE form = "expression" -> <<ExpressionStatement(tree)>>
      [] form = "paren" -> <<ExpressionStatement(ParenthesizedExpression(tree))>>
      [] form = "fragment" -> <<ExpressionStatement(JSXFragment(<<JSXText, tree>>))>>
      [] form = "nested_fragment" ->
            <<ExpressionStatement(JSXFragment(<<JSXFragment(<<tree>>)>>))>>
      [] form = "argument" ->
            <<ExpressionStatement(CallExpression(Identifier(Name_render), <<tree>>))>>
      [] form = "variable_arrow" ->
            <<VariableDeclaration(<<
                VariableDeclarator(Untyped(Name_helper, Span(0, 0)), None),
                VariableDeclarator(Untyped(Name_Card, Span(0, 0)),
                    ArrowFunctionExpression(TRUE, <<ExpressionStatement(tree)>>))>>)>>
      [] form = "variable_function" ->
            <<VariableDeclaration(<<
                VariableDeclarator(Untyped(Name_Card, Span(0, 0)),
                    FunctionExpression(FunctionBody(<<ReturnStatement(tree)>>)))>>)>>
      [] form = "export_variable" ->
            <<ExportNamedDeclaration(
                VariableDeclaration(<<
                    VariableDeclarator(Untyped(Name_Card, Span(0, 0)),
                        ArrowFunctionExpression(FALSE, <<ReturnStatement(tree)>>))>>),
                <<>>)>>
      [] form = "export_function" ->
            <<ExportNamedDeclaration(
                FunctionDeclaration(BindingIdentifier(Name_App, Span(0, 0)), None,
                    FunctionBody(<<ReturnStatement(tree)>>)),
                <<>>)>>
      [] form = "export_default_arrow" ->
            <<ExportDefaultDeclaration(
                ArrowFunctionExpression(TRUE, <<ExpressionStatement(tree)>>))>>
      [] form = "export_default_function" ->
            <<ExportDefaultDeclaration(
                FunctionDeclaration(None, None,
                    FunctionBody(<<ReturnStatement(tree)>>)))>>
      [] form = "block_if" ->
            <<EmptyStatement,
              BlockStatement(<<IfStatement(ExpressionStatement(Markup),
                                           ExpressionStatement(tree))>>)>>
      [] form = "function_declaration" ->
            <<FunctionDeclaration(BindingIdentifier(Name_App, Span(0, 0)), None,
                FunctionBody(<<ReturnStatement(tree)>>))>>
      [] form = "wrapper_argument" ->
            <<VariableDeclaration(<<
                VariableDeclarator(Untyped(Name_Card, Span(0, 0)),
                    CallExpression(Identifier(Name_memo),
                        <<ArrowFunctionExpression(TRUE,
                            <<ExpressionStatement(tree)>>)>>))>>)>>
      [] form = "conditional" ->
            <<ReturnStatement(ConditionalExpression(tree, tree))>>
      [] form = "logical" ->
            <<ExpressionStatement(LogicalExpression(Identifier(Name_helper), tree))>>
      [] form = "attribute" ->
            <<ExpressionStatement(
                JSXElementWithAttribute(JSXIdentifier(Name_div), Span(0, 0), tree))>>
      [] form = "for_loop" ->
            <<ForStatement(BlockStatement(<<ExpressionStatement(tree)>>))>>
      [] form = "while_loop" ->
            <<WhileStatement(BlockStatement(<<ExpressionStatement(tree)>>))>>
      [] form = "try_block" ->
            <<TryStatement(BlockStatement(<<ReturnStatement(tree)>>))>>
      [] form = "switch_case" ->
            <<SwitchStatement(<<SwitchCase(<<ReturnStatement(tree)>>)>>)>>
      [] form = "if_else" ->
            <<IfStatement(
                BlockStatement(<<ReturnStatement(
                    JSXElement(JSXIdentifierReference(Name_Card), Span(0, 0), <<>>))>>),
                ReturnStatement(tree))>>

CallCollectJsxFromElement ==
    /\ call.fn = "collect_jsx_from_element"
    /\ returned = NotReturned
    /\ returned' = Value(collect_jsx_from_element(call.jsx_elem, call.usages))
    /\ UNCHANGED <<call, analyze_vars>>

CallCollectJsxUsages ==
    /\ call.fn = "collect_jsx_usages"
    /\ returned = NotReturned
    /\ returned' = Value(collect_jsx_usages(call.statements))
    /\ UNCHANGED <<call, analyze_vars>>

InitJsx ==
    /\ \E tags \in TagLists, child_form \in ChildForms :
          /\ Len(tags) = 1 => child_form = "element"
          /\ \/ call = [fn |-> "collect_jsx_from_element",
                        jsx_elem |-> TreeAt(tags, child_form, 1),
                        usages |-> <<>>]
             \/ \E holder \in HolderForms :
                   call = [fn |-> "collect_jsx_usages",
                           statements |-> HolderAt(holder, TreeAt(tags, child_form, 1))]
    /\ returned = NotReturned
    /\ AnalyzeIdle

NextJsx ==
    \/ CallCollectJsxFromElement
    \/ CallCollectJsxUsages

SpecJsx == InitJsx /\ [][NextJsx]_vars

\* the elements the traversal of an element visits, outermost first: the
\* element and, for each child that is an element, the elements under it
RECURSIVE ElementsUnder(_)
RECURSIVE ElementsUnderChildren(_, _)
ElementsUnder(jsx_elem) == <<jsx_elem>> \o ElementsUnderChildren(jsx_elem.children, 1)
ElementsUnderChildren(children, k) ==
    IF k > Len(children) THEN <<>>
    ELSE (IF children[k].kind = "JSXElement" THEN ElementsUnder(children[k]) ELSE <<>>)
         \o ElementsUnderChildren(children, k + 1)

\* the tag of the element is Base.Sub with an uppercase-led identifier Base
IsDottedFrom(jsx_elem, base) ==
    LET name == jsx_elem.opening_element.name
    IN  /\ name.kind = "MemberExpression"
        /\ name.object.kind = "IdentifierReference"
        /\ name.object.name = base
        /\ StartsWithUppercase(base)

\* the tag of the element is the plain name
IsPlain(jsx_elem, base) ==
    LET name == jsx_elem.opening_element.name
    IN  /\ name.kind \in {"Identifier", "IdentifierReference"}
        /\ name.name = base

ElementCallReturned ==
    call.fn = "collect_jsx_from_element" /\ returned # NotReturned

\* C7: of the elements traversed, each one whose tag is Base.Sub with an
\* uppercase-led identifier Base has exactly one usage entry, and that entry
\* is named Base; so the entries named Base are as many as the traversed
\* elements tagged Base.Sub or Base, and N elements Base.Sub nested in one
\* another give N entries named Base.
C7_DottedTagNamesItsBase ==
    ElementCallReturned =>
        LET traversed == ElementsUnder(call.jsx_elem)
            entries == returned.value
        IN  \A base \in {Name_UI, Name_ui, Name_Btn} :
               /\ \A i \in DOMAIN traversed :
                     IsDottedFrom(traversed[i], base) =>
                        /\ Cardinality({j \in DOMAIN entries :
                                entries[j].span = traversed[i].span}) = 1
                        /\ \A j \in DOMAIN entries :
                              entries[j].span = traversed[i].span =>
                                 entries[j].name = base
               /\ StartsWithUppercase(base) =>
                     Cardinality({j \in DOMAIN entries : entries[j].name = base})
                        = Cardinality({i \in DOMAIN traversed :
                              \/ IsDottedFrom(traversed[i], base)
                              \/ IsPlain(traversed[i], base)})

\* C7 witness: the call returned three entries for three elements UI.Root,
\* UI.Item, UI.Root nested in one another
C7_Witness ==
    /\ ElementCallReturned
    /\ Len(ElementsUnder(call.jsx_elem)) = 3
    /\ \A i \in 1..3 : IsDottedFrom(ElementsUnder(call.jsx_elem)[i], Name_UI)
    /\ ElementsUnder(call.jsx_elem)[1].opening_element.name.property
          # ElementsUnder(call.jsx_elem)[2].opening_element.name.property
    /\ Len(returned.value) = 3

\* the elements inside a markup node when every fragment is traversed, the
\* fragments that are children of an element or of a fragment included
RECURSIVE ElementsThroughFragments(_)
RECURSIVE ElementsThroughFragmentsOf(_, _)
ElementsThroughFragments(node) ==
    IF node.kind = "JSXElement"
    THEN <<node>> \o ElementsThroughFragmentsOf(node.children, 1)
    ELSE IF node.kind = "JSXFragment"
    THEN ElementsThroughFragmentsOf(node.children, 1)
    ELSE <<>>
ElementsThroughFragmentsOf(children, k) ==
    IF k > Len(children) THEN <<>>
    ELSE ElementsThroughFragments(children[k])
         \o ElementsThroughFragmentsOf(children, k + 1)

\* collect_jsx_usages returned for one expression statement that is markup
MarkupStatementCallReturned ==
    /\ call.fn = "collect_jsx_usages"
    /\ returned # NotReturned
    /\ Len(call.statements) = 1
    /\ call.statements[1].kind = "ExpressionStatement"
    /\ call.statements[1].expression.kind \in {"JSXElement", "JSXFragment"}

\* C21: a fragment is traversed wherever it occurs in the markup the
\* collector reaches (as the expression itself, as a child of an element, as
\* a child of another fragment): every uppercase-led element inside it has a
\* usage entry, and the fragments add no entry of their own.
C21_FragmentsTraversedWhereverTheyOccur ==
    MarkupStatementCallReturned =>
        LET inside == ElementsThroughFragments(call.statements[1].expression)
            entries == returned.value
        IN  /\ \A i \in DOMAIN inside :
                  IsPlain(inside[i], Name_Btn) =>
                     \E j \in DOMAIN entries : entries[j].span = inside[i].span
            /\ Len(entries) <= Len(inside)

\* the tag of the element gives no usage entry: it is lowercase, namespaced,
\* this-qualified, or a member expression whose object is no uppercase-led
\* identifier
IsNonQualifying(jsx_elem) ==
    LET name == jsx_elem.opening_element.name
    IN  \/ name.kind \in {"Identifier", "IdentifierReference"}
           /\ ~StartsWithUppercase(name.name)
        \/ name.kind = "NamespacedName"
        \/ name.kind = "MemberExpression"
           /\ \/ name.object.kind # "IdentifierReference"
              \/ ~StartsWithUppercase(name.object.name)

\* C22: the child elements of every visited element are visited whether or
\* not the element produced an entry: an uppercase-led element has exactly
\* one entry, with its name, at whatever depth it is nested as a child
\* element under elements with lowercase, namespaced, this-qualified or
\* non-qualifying member-expression tags, and those elements have no entry.
C22_ChildrenVisitedUnderAnyTag ==
    ElementCallReturned =>
        LET traversed == ElementsUnder(call.jsx_elem)
            entries == returned.value
        IN  \A i \in DOMAIN traversed :
               /\ IsPlain(traversed[i], Name_Btn) =>
                     /\ Cardinality({j \in DOMAIN entries :
                             entries[j].span = traversed[i].span}) = 1
                     /\ \A j \in DOMAIN entries :
                           entries[j].span = traversed[i].span =>
                              entries[j].name = Name_Btn
               /\ IsNonQualifying(traversed[i]) =>
                     \A j \in DOMAIN entries : entries[j].span # traversed[i].span

\* C22 witness: Btn is the child of a this-qualified element that is the
\* child of a namespaced element, and the call returned the one entry for Btn
C22_Witness ==
    /\ ElementCallReturned
    /\ Len(ElementsUnder(call.jsx_elem)) = 3
    /\ ElementsUnder(call.jsx_elem)[1].opening_element.name.kind = "NamespacedName"
    /\ ElementsUnder(call.jsx_elem)[2].opening_element.name.kind = "MemberExpression"
    /\ ElementsUnder(call.jsx_elem)[2].opening_element.name.object.kind = "ThisExpression"
    /\ IsPlain(ElementsUnder(call.jsx_elem)[3], Name_Btn)
    /\ returned.value = <<Usage(Name_Btn, ElementsUnder(call.jsx_elem)[3].span)>>

\* the markup elements a function body gives back: the arguments of its
\* return statements and its expression statements, parenthesized or not, in
\* order
MarkupOfBody(statements) ==
    Concat([k \in DOMAIN statements |->
        IF statements[k].kind = "ReturnStatement"
        THEN IF statements[k].argument.kind = "JSXElement"
             THEN <<statements[k].argument>>
             ELSE IF statements[k].argument.kind = "ParenthesizedExpression"
             THEN <<statements[k].argument.expression>>
             ELSE <<>>
        ELSE IF statements[k].kind = "ExpressionStatement"
        THEN IF statements[k].expression.kind = "JSXElement"
             THEN <<statements[k].expression>>
             ELSE IF statements[k].expression.kind = "ParenthesizedExpression"
             THEN <<statements[k].expression.expression>>
             ELSE <<>>
        ELSE <<>>])

\* the markup elements of a declaration: of the functions its declarators
\* are initialized with, or of its function body
MarkupOfDeclaration(declaration) ==
    IF declaration.kind = "VariableDeclaration"
    THEN Concat([k \in DOMAIN declaration.declarations |->
            IF declaration.declarations[k].init.kind
                  \in {"ArrowFunctionExpression", "FunctionExpression"}
            THEN MarkupOfBody(declaration.declarations[k].init.body.statements)
            ELSE <<>>])
    ELSE IF declaration.kind = "FunctionDeclaration"
    THEN MarkupOfBody(declaration.body.statements)
    ELSE <<>>

\* the markup elements of a top-level statement of the module
MarkupOfStatement(s) ==
    IF s.kind = "VariableDeclaration" THEN MarkupOfDeclaration(s)
    ELSE IF s.kind \in {"ExportNamedDeclaration", "ExportDefaultDeclaration"}
    THEN MarkupOfDeclaration(s.declaration)
    ELSE <<>>

\* the element occurrences visited in the module, statement by statement
\* and in each markup tree the parent before its child elements
VisitedInModule ==
    LET roots == Concat([i \in DOMAIN Body |-> MarkupOfStatement(Body[i])])
    IN  Concat([r \in DOMAIN roots |-> ElementsUnder(roots[r])])

\* the occurrence gives an entry: its tag is an uppercase-led name or a
\* dotted access on an uppercase-led identifier
IsQualifying(jsx_elem) ==
    LET name == jsx_elem.opening_element.name
    IN  \/ name.kind \in {"Identifier", "IdentifierReference"}
           /\ StartsWithUppercase(name.name)
        \/ name.kind = "MemberExpression"
           /\ name.object.kind = "IdentifierReference"
           /\ StartsWithUppercase(name.object.name)

\* the indices of the raw entries with an imported name
ImportedEntries ==
    {i \in DOMAIN locals.jsx_usages_raw :
        locals.jsx_usages_raw[i].name \in ResultImportedNames}

\* C23: the entries collect_jsx_usages returns stand in depth-first
\* pre-order (statements in source order, a parent before its children, the
\* children in order) and are never merged: they are, one for one and in
\* that order, the qualifying element occurrences visited.  The jsx_usages
\* of the result are the entries with an imported name, in the same order.
C23_UsagesInPreOrder ==
    ReturnedOk =>
        LET raw == locals.jsx_usages_raw
            kept == result.value.jsx_usages
            qualifying == SelectSeq(VisitedInModule, IsQualifying)
        IN  /\ Len(raw) = Len(qualifying)
            /\ \A i \in DOMAIN raw : raw[i].span = qualifying[i].span
            /\ \A i, j \in DOMAIN raw :
                  i < j =>
                     \/ raw[i].span.start < raw[j].span.start
                     \/ /\ raw[i].span.start = raw[j].span.start
                        /\ raw[i].span.end > raw[j].span.end
            /\ Len(kept) = Cardinality(ImportedEntries)
            /\ \A k \in DOMAIN kept :
                  \E i \in ImportedEntries :
                     /\ Cardinality({m \in ImportedEntries : m <= i}) = k
                     /\ kept[k].component_name = raw[i].name
                     /\ kept[k].range = span_to_range(locals.source_text, raw[i].span)

\* C23 witness: three entries were collected, the first from one statement
\* and then a parent and an element nested in it from the next statement,
\* and the result keeps the second of them only
C23_Witness ==
    /\ ReturnedOk
    /\ Len(locals.jsx_usages_raw) = 3
    /\ locals.jsx_usages_raw[1].span.end < locals.jsx_usages_raw[2].span.start
    /\ locals.jsx_usages_raw[2].span.start < locals.jsx_usages_raw[3].span.start
    /\ locals.jsx_usages_raw[3].span.end < locals.jsx_usages_raw[2].span.end
    /\ ImportedEntries = {2}
    /\ Len(result.value.jsx_usages) = 1

\* span `inner` lies within span `outer`
Within(inner, outer) == outer.start <= inner.start /\ inner.end <= outer.end

\* C24: every usage entry carries the span of the entire element, opening
\* through closing tag, never that of the opening tag or of the name in it;
\* so the span of a nested usage lies within the span of every recorded
\* usage of an element it is nested in.
C24_EntrySpansWholeElement ==
    ElementCallReturned =>
        LET traversed == SelectSeq(ElementsUnder(call.jsx_elem), IsQualifying)
            entries == returned.value
        IN  /\ Len(entries) = Len(traversed)
            /\ \A i \in DOMAIN entries :
                  /\ entries[i].span = traversed[i].span
                  /\ traversed[i].children # <<>> =>
                        entries[i].span # traversed[i].opening_element.span
            /\ \A i, j \in DOMAIN entries :
                  i < j => Within(entries[j].span, entries[i].span)

\* C24 witness: the call returned the entries of Btn and of an element
\* UI.Root it is nested in, two levels up, and the span of the entry of
\* UI.Root is wider than its opening tag
C24_Witness ==
    /\ ElementCallReturned
    /\ Len(ElementsUnder(call.jsx_elem)) = 3
    /\ Len(returned.value) = 2
    /\ returned.value[1].name = Name_UI
    /\ returned.value[2].name = Name_Btn
    /\ returned.value[1].span = call.jsx_elem.span
    /\ returned.value[1].span # call.jsx_elem.opening_element.span
    /\ returned.value[2].span = ElementsUnder(call.jsx_elem)[3].span

\* the property names of the runtime factories
FactoryPropertyNames ==
    {<<"j", "s", "x">>, <<"j", "s", "x", "s">>, <<"j", "s", "x", "D", "E", "V">>,
     <<"F", "r", "a", "g", "m", "e", "n", "t">>}

\* the callee is a parenthesized two-element sequence expression whose final
\* element is an identifier of the set, a member access on any object with
\* the property name of a factory, or a computed member access whose key is
\* the string literal of such a name
IsBundledFactoryCallee(callee, ids) ==
    /\ callee.kind = "ParenthesizedExpression"
    /\ callee.expression.kind = "SequenceExpression"
    /\ Len(callee.expression.expressions) = 2
    /\ LET final == callee.expression.expressions[2]
       IN  \/ final.kind = "Identifier" /\ final.name \in ids
           \/ /\ final.kind = "StaticMemberExpression"
              /\ final.property.name \in FactoryPropertyNames
           \/ /\ final.kind = "ComputedMemberExpression"
              /\ final.expression.kind = "StringLiteral"
              /\ final.expression.value \in FactoryPropertyNames

IsBundledFactoryCall(expr, ids) ==
    /\ expr.kind = "CallExpression"
    /\ IsBundledFactoryCallee(expr.callee, ids)

\* the call the function of the classification call returns, if it returns
\* one: from a return statement of its body or as the expression body of an
\* arrow function
ReturnedCalls ==
    LET statements ==
            IF call.fn = "is_react_function_component"
            THEN IF is_some(call.body) THEN call.body.statements ELSE <<>>
            ELSE IF call.init.kind = "ArrowFunctionExpression"
            THEN call.init.body.statements
            ELSE IF call.init.kind = "FunctionExpression"
            THEN call.init.body.statements
            ELSE <<>>
    IN  {statements[k].argument : k \in {m \in DOMAIN statements :
            /\ statements[m].kind = "ReturnStatement"
            /\ statements[m].argument.kind = "CallExpression"}}
        \cup
        {statements[k].expression : k \in {m \in DOMAIN statements :
            /\ statements[m].kind = "ExpressionStatement"
            /\ call.fn = "is_react_component"
            /\ call.init.kind = "ArrowFunctionExpression"
            /\ call.init.expression
            /\ statements[m].expression.kind = "CallExpression"}}

\* C25: a call whose callee is a parenthesized two-element sequence
\* expression is a runtime-factory call when the final element of the
\* sequence is an identifier of the runtime-factory identifier set, a member
\* access on any object with a property name of jsx, jsxs, jsxDEV, Fragment,
\* or a computed member access with such a string-literal key; the two
\* member-access forms count whatever the file imports.  A function with an
\* uppercase-led name that returns such a call is classified as a component.
C25_BundledFactoryCallIsMarkup ==
    (ComponentCallReturned /\ StartsWithUppercase(call.name)) =>
        \A returned_call \in ReturnedCalls :
            IsBundledFactoryCall(returned_call, call.jsx_runtime_identifiers) =>
                returned.value = TRUE

\* C25 witness: with no imported factory and no type annotation, an arrow
\* function App whose expression body is (0, rt["jsxs"])("div", {}) was
\* classified as a component
C25_Witness ==
    /\ call.fn = "is_react_component"
    /\ returned # NotReturned
    /\ call.name = Name_App
    /\ ~is_some(call.binding.type_annotation)
    /\ call.jsx_runtime_identifiers = {}
    /\ call.init.kind = "ArrowFunctionExpression"
    /\ \E returned_call \in ReturnedCalls :
          /\ IsBundledFactoryCall(returned_call, {})
          /\ returned_call.callee.expression.expressions[2].kind
                = "ComputedMemberExpression"
    /\ returned.value = TRUE

\* the spans of the classified top-level declarations of a name, in the
\* order of the statements and of the declarators
ClassifiedSpans(name) ==
    LET named == SelectSeq(TopLevelInserts, LAMBDA d : d.name = name)
    IN  [k \in DOMAIN named |-> named[k].span]

\* no statement before the i-th exports a declaration of the name inline
NoInlineBefore(i, name) ==
    \A j \in 1..(i - 1) : name \notin KeysOf(InlineOf(Body[j]))

\* C26: the declaration map holds one span per name and the last write
\* wins: after the first pass a name is a key exactly if a top-level
\* declaration of it is classified as a component, with the span of the last
\* such declaration, so a later declaration of the name that is not
\* classified neither overwrites nor removes the entry; and `export default
\* Name` reports that span (while no statement before it registered the name
\* again).
C26_LastClassifiedDeclarationWins ==
    /\ pc = "classified" =>
          \A name \in {Name_Card, Name_Btn, Name_App, Name_Item, Name_app} :
              LET spans == ClassifiedSpans(name)
              IN  /\ name \in DOMAIN locals.component_declarations <=> spans # <<>>
                  /\ spans # <<>> =>
                        locals.component_declarations[name] = spans[Len(spans)]
    /\ ExportsResolved =>
          \A i \in DOMAIN Body :
              (/\ IsDefaultIdentifierExport(Body[i])
               /\ NoInlineBefore(i, Body[i].declaration.name)
               /\ ClassifiedSpans(Body[i].declaration.name) # <<>>) =>
                  LET spans == ClassifiedSpans(Body[i].declaration.name)
                  IN  AddedBy(i) = <<Usage(Body[i].declaration.name, spans[Len(spans)])>>

\* the i-th statement declares Card twice, the first time as a component
IsCardTwice(i) ==
    /\ Body[i].kind = "VariableDeclaration"
    /\ Len(Body[i].declarations) = 2
    /\ Body[i].declarations[1].id.kind.name = Name_Card
    /\ Body[i].declarations[2].id.kind.name = Name_Card
    /\ Body[i].declarations[2].init.kind = "NumericLiteral"

\* C26 witness: Card is declared as a component, then declared again as a
\* component and once more as a number, and `export default Card` after
\* them reported the span of the second declaration
C26_Witness ==
    /\ ExportsResolved
    /\ Len(Body) = 3
    /\ Body[1].kind = "VariableDeclaration"
    /\ Len(Body[1].declarations) = 1
    /\ Body[1].declarations[1].id.kind.name = Name_Card
    /\ IsCardTwice(2)
    /\ IsDefaultIdentifierExport(Body[3])
    /\ Len(ClassifiedSpans(Name_Card)) = 2
    /\ locals.exported_components =
          <<Usage(Name_Card, Body[2].declarations[1].id.kind.span)>>
    /\ locals.component_declarations[Name_Card] = Body[2].declarations[1].id.kind.span

\* the markup of the statements stands where the traversal does not go: in
\* the body of a function declaration that no export wraps, in an argument
\* of a call, in a conditional or logical expression, in a loop, in a try
\* block or in a switch case
OutsideTraversal(statements) ==
    /\ Len(statements) = 1
    /\ \/ statements[1].kind \in {"FunctionDeclaration", "ForStatement",
                                  "WhileStatement", "TryStatement", "SwitchStatement"}
       \/ /\ statements[1].kind = "ExpressionStatement"
          /\ statements[1].expression.kind
                \in {"CallExpression", "ConditionalExpression", "LogicalExpression"}
       \/ /\ statements[1].kind = "ReturnStatement"
          /\ statements[1].argument.kind
                \in {"CallExpression", "ConditionalExpression", "LogicalExpression"}
       \/ /\ statements[1].kind = "VariableDeclaration"
          /\ \A k \in DOMAIN statements[1].declarations :
                statements[1].declarations[k].init.kind \in {"None", "CallExpression"}

\* the statements are one element whose attribute holds the markup
MarkupInAttribute(statements) ==
    /\ Len(statements) = 1
    /\ statements[1].kind = "ExpressionStatement"
    /\ statements[1].expression.kind = "JSXElement"
    /\ "attributes" \in DOMAIN statements[1].expression.opening_element

\* the statements are one if-statement with markup in both branches
IsIfElse(statements) ==
    /\ Len(statements) = 1
    /\ statements[1].kind = "IfStatement"
    /\ statements[1].consequent.kind = "BlockStatement"
    /\ statements[1].alternate.kind = "ReturnStatement"

\* the entries of the qualifying elements of a tree, by their spans
SpansQualifying(tree) ==
    LET visited == SelectSeq(ElementsUnder(tree), IsQualifying)
    IN  [k \in DOMAIN visited |-> visited[k].span]

\* the children of the element hold the nested element in an expression
\* container
HasContainerChild(jsx_elem) ==
    \E k \in DOMAIN jsx_elem.children :
        jsx_elem.children[k].kind = "JSXExpressionContainer"

\* C27: markup outside the node kinds the collector recurses into gives no
\* entry: in the body of a top-level function declaration that no export
\* wraps, in the arguments of a call such as memo(...), in a conditional or
\* logical expression, in an expression container or an attribute inside
\* markup, in a loop, a try block or a switch; an if-statement gives the
\* usages of its consequent and then of its alternate.
C27_TraversalStopsOutsideListedNodes ==
    /\ (call.fn = "collect_jsx_usages" /\ returned # NotReturned) =>
          /\ OutsideTraversal(call.statements) => returned.value = <<>>
          /\ MarkupInAttribute(call.statements) => returned.value = <<>>
          /\ IsIfElse(call.statements) =>
                [k \in DOMAIN returned.value |-> returned.value[k].span]
                    = SpansQualifying(call.statements[1].consequent.body[1].argument)
                      \o SpansQualifying(call.statements[1].alternate.argument)
    /\ ElementCallReturned =>
          (HasContainerChild(call.jsx_elem) =>
              Len(returned.value) = Len(SelectSeq(<<call.jsx_elem>>, IsQualifying)))

\* C27 witness: collect_jsx_usages returned nothing for a function
\* declaration, not wrapped in an export, that returns <Btn>...</Btn>
C27_Witness ==
    /\ call.fn = "collect_jsx_usages"
    /\ returned # NotReturned
    /\ Len(call.statements) = 1
    /\ call.statements[1].kind = "FunctionDeclaration"
    /\ IsPlain(call.statements[1].body.statements[1].argument, Name_Btn)
    /\ returned.value = <<>>

\* the identifier a dotted tag starts from: Base of Base.A and of Base.A.B
\* (None when the access starts from `this`)
RECURSIVE BaseOf(_)
BaseOf(name) ==
    IF name.kind = "MemberExpression" THEN BaseOf(name.object)
    ELSE IF name.kind = "IdentifierReference" THEN name.name
    ELSE <<>>

\* C28: an element whose tag is a dotted access of any depth on an
\* identifier (Base.A.B as well as Base.A) has exactly one usage entry, named
\* Base, when Base starts with an uppercase character, and no entry when it
\* starts with a lowercase character.
C28_DottedTagOfAnyDepthNamesItsBase ==
    ElementCallReturned =>
        LET traversed == ElementsUnder(call.jsx_elem)
            entries == returned.value
        IN  \A i \in DOMAIN traversed :
               LET name == traversed[i].opening_element.name
                   at == {j \in DOMAIN entries : entries[j].span = traversed[i].span}
               IN  (name.kind = "MemberExpression" /\ BaseOf(name) # <<>>) =>
                      IF StartsWithUppercase(BaseOf(name))
                      THEN /\ Cardinality(at) = 1
                           /\ \A j \in at : entries[j].name = BaseOf(name)
                      ELSE at = {}

\* the declarator binds an uppercase-led name without a type annotation to
\* a function that only gives back parenthesized markup: an arrow function
\* whose expression body is ( <markup/> ), or a function whose block body
\* is `return ( <markup/> )`
IsParenthesizedMarkupDeclarator(d) ==
    /\ d.id.kind.kind = "BindingIdentifier"
    /\ StartsWithUppercase(d.id.kind.name)
    /\ ~is_some(d.id.type_annotation)
    /\ d.init.kind \in {"ArrowFunctionExpression", "FunctionExpression"}
    /\ Len(d.init.body.statements) = 1
    /\ LET stmt == d.init.body.statements[1]
           given == IF stmt.kind = "ReturnStatement" THEN stmt.argument
                    ELSE stmt.expression
       IN  /\ stmt.kind \in {"ReturnStatement", "ExpressionStatement"}
           /\ stmt.kind = "ExpressionStatement" =>
                 d.init.kind = "ArrowFunctionExpression" /\ d.init.expression
           /\ given.kind = "ParenthesizedExpression"
           /\ given.expression.kind = "JSXElement"

\* the markup inside the parentheses
ParenthesizedMarkupOf(d) ==
    LET stmt == d.init.body.statements[1]
    IN  IF stmt.kind = "ReturnStatement" THEN stmt.argument.expression
        ELSE stmt.expression.expression

\* the declarators of the module, of its top-level variable declarations
\* and of those an export wraps
DeclaratorsOfModule ==
    Concat([i \in DOMAIN Body |->
        IF Body[i].kind = "VariableDeclaration" THEN Body[i].declarations
        ELSE IF /\ Body[i].kind = "ExportNamedDeclaration"
                /\ Body[i].declaration.kind = "VariableDeclaration"
        THEN Body[i].declaration.declarations
        ELSE <<>>])

\* the names that some declaration of the module binds other than to
\* parenthesized markup
OtherwiseDeclared ==
    {DeclaratorsOfModule[k].id.kind.name :
        k \in {m \in DOMAIN DeclaratorsOfModule :
                  ~IsParenthesizedMarkupDeclarator(DeclaratorsOfModule[m])}}
    \cup {Body[i].declaration.id.name :
            i \in {j \in DOMAIN Body :
                      /\ Body[j].kind \in {"ExportNamedDeclaration",
                                           "ExportDefaultDeclaration"}
                      /\ Body[j].declaration.kind = "FunctionDeclaration"}}

\* C29: the classification does not look through parentheses and the usage
\* collection does: an uppercase-led name without a recognised type
\* annotation that is declared only as a function whose block body is
\* `return ( <markup/> )` or as an arrow function whose expression body is
\* ( <markup/> ) is never a key of the declaration map and never listed in
\* components, also when its declaration is exported, while the raw usages
\* hold the entries of the markup inside the parentheses.
C29_ParenthesizedMarkupIsNotClassified ==
    \A k \in (IF Bound("ret") THEN DOMAIN DeclaratorsOfModule ELSE {}) :
        LET d == DeclaratorsOfModule[k]
        IN  IsParenthesizedMarkupDeclarator(d) =>
               /\ (/\ Bound("component_declarations")
                   /\ d.id.kind.name \notin OtherwiseDeclared) =>
                      d.id.kind.name \notin DOMAIN locals.component_declarations
               /\ ReturnedOk =>
                     /\ d.id.kind.name \notin OtherwiseDeclared =>
                           \A c \in Elements(result.value.components) :
                               c.name # d.id.kind.name
                     /\ \A e \in Elements(SelectSeq(
                                    ElementsUnder(ParenthesizedMarkupOf(d)),
                                    IsQualifying)) :
                           \E u \in Elements(locals.jsx_usages_raw) : u.span = e.span

\* C29 witness: `export const Item = () => (<Btn/>), Root = function () {
\* return (<Btn/>); }` was analyzed with Btn imported: neither name is a
\* component and both usages of Btn are in the result
C29_Witness ==
    /\ ReturnedOk
    /\ \E i \in DOMAIN Body :
          /\ Body[i].kind = "ExportNamedDeclaration"
          /\ Body[i].declaration.kind = "VariableDeclaration"
          /\ Len(Body[i].declaration.declarations) = 2
          /\ \A k \in 1..2 :
                IsParenthesizedMarkupDeclarator(Body[i].declaration.declarations[k])
          /\ Body[i].declaration.declarations[1].init.kind = "ArrowFunctionExpression"
          /\ Body[i].declaration.declarations[2].init.kind = "FunctionExpression"
    /\ result.value.components = <<>>
    /\ Len(result.value.jsx_usages) = 2
    /\ \A u \in Elements(result.value.jsx_usages) : u.component_name = Name_Btn

\* the names some declaration of the module, top-level or exported inline,
\* is accepted for by is_react_component or is_react_function_component
AcceptedNames ==
    KeysOf(TopLevelInserts \o Concat([j \in DOMAIN Body |-> InlineOf(Body[j])]))

\* C30: once the classification pass has run, and after the __export pass
\* and the export statement pass, every key of the declaration map, every
\* exported entry and every name in components starts with an uppercase
\* character and is the name of a declaration of the module that
\* is_react_component or is_react_function_component accepted.
C30_OnlyClassifiedNamesAreExported ==
    Bound("component_declarations") =>
        /\ \A name \in DOMAIN locals.component_declarations :
              StartsWithUppercase(name) /\ name \in AcceptedNames
        /\ Bound("exported_components") =>
              \A e \in Elements(locals.exported_components) :
                  StartsWithUppercase(e.name) /\ e.name \in AcceptedNames
        /\ ReturnedOk =>
              \A c \in Elements(result.value.components) :
                  StartsWithUppercase(c.name) /\ c.name \in AcceptedNames

\* C30 witness: analyze returned two components or more for a module in
\* which an export statement names an uppercase-led name that no accepted
\* declaration has
C30_Witness ==
    /\ ReturnedOk
    /\ Len(result.value.components) >= 2
    /\ \E i \in DOMAIN Body : \E k \in DOMAIN LookedUp(Body[i]) :
          /\ StartsWithUppercase(LookedUp(Body[i])[k])
          /\ LookedUp(Body[i])[k] \notin AcceptedNames

====
